---- MODULE Spec2Model ----
(***************************************************************************)
(* A model of the deepseek-cli session core: the ChatHandler session state *)
(* and request composer (src/src/handlers/chat_handler.py), the command    *)
(* surface that drives it (src/src/handlers/command_handler.py), the       *)
(* APIClient fields the commands touch (src/src/api/client.py), the retry  *)
(* engine (src/src/handlers/error_handler.py), the streaming controller    *)
(* (ChatHandler.stream_response), the turn of the modular client           *)
(* (src/src/cli/deepseek_cli.py) and the single-file variant               *)
(* of the client (src/deepseek_cli.py).                                    *)
(*                                                                         *)
(* Floating point parameters (temperature, top_p, penalties) are kept in   *)
(* tenths: 1.3 is 13, and so are seconds of wall-clock time: 0.2 s is 2.   *)
(* Python's None is the string "None".  A text whose characters matter     *)
(* (streamed content) is a sequence of one-character strings.              *)
(***************************************************************************)
EXTENDS Integers, Sequences, FiniteSets, TLC

VARIABLES
    chat_handler,   \* the ChatHandler object (a record of its fields)
    api_client,     \* the APIClient object
    engine,         \* one invocation of ErrorHandler.retry_with_backoff
    cli,            \* the DeepSeekCLI object of src/deepseek_cli.py
    stream,         \* one invocation of ChatHandler.stream_response
    result,         \* the last call: [op, arg, ret]
    calls           \* number of calls made since Init

vars == <<chat_handler, api_client, engine, cli, stream, result, calls>>

None == "None"

(***************************************************************************)
(* Bounds of the model.                                                    *)
(***************************************************************************)
\* calls made after Init in one behaviour
MaxCalls == 4
\* Init may start with a history up to NearCap messages short of the cap
NearCap == 2
\* commands and turns of the single-file client in one behaviour
MaxCliCalls == 3
\* calls made after Init in one behaviour of SpecFold
MaxFoldCalls == 3
\* attempts the wrapped request may make in one engine invocation
MaxAttempts == 5
\* chunks in one streamed response
MaxChunks == 3
\* lengths of the long chunks and of the sentences in them
LongChunk == 4100
MidChunk == 1800
SentenceLength == 97
\* the length of the sentences of the long chunks with long sentences
ParagraphLength == 1000

(***************************************************************************)
(* src/src/config/settings.py                                              *)
(***************************************************************************)
MAX_FUNCTIONS == 128
MAX_STOP_SEQUENCES == 16
MAX_HISTORY_LENGTH == 100
DEFAULT_MAX_TOKENS == 4096
DEFAULT_TEMPERATURE == 10
DEFAULT_MAX_RETRIES == 3
DEFAULT_RETRY_DELAY == 1
DEFAULT_MAX_RETRY_DELAY == 16
DEFAULT_MODEL == "deepseek/deepseek-chat"

DeepSeekModels ==
    {"deepseek/deepseek-chat", "deepseek/deepseek-coder", "deepseek/deepseek-reasoner"}
OpenAIModels == {"gpt-4o", "gpt-4o-mini", "gpt-4-turbo"}
AnthropicModels == {"claude-3-5-sonnet-20241022", "claude-3-5-haiku-20241022"}
GeminiModels == {"gemini/gemini-2.0-flash-exp", "gemini/gemini-1.5-pro"}
OllamaModels == {"ollama/llama3.2", "ollama/qwen2.5"}

CatalogKeys ==
    DeepSeekModels \cup OpenAIModels \cup AnthropicModels \cup GeminiModels
        \cup OllamaModels

CatalogMaxTokens(m) ==
    CASE m = "deepseek/deepseek-reasoner" -> 64000
      [] m \in {"gpt-4o", "gpt-4o-mini"} -> 16384
      [] m \in {"gpt-4-turbo"} \cup OllamaModels -> 4096
      [] OTHER -> 8192

CatalogProvider(m) ==
    CASE m \in DeepSeekModels -> "deepseek"
      [] m \in OpenAIModels -> "openai"
      [] m \in AnthropicModels -> "anthropic"
      [] m \in GeminiModels -> "gemini"
      [] OTHER -> "ollama"

MODEL_CONFIGS ==
    [m \in CatalogKeys |->
        [provider |-> CatalogProvider(m),
         max_tokens |-> CatalogMaxTokens(m),
         supports_json |-> TRUE,
         supports_function_calling |-> (m # "deepseek/deepseek-reasoner"),
         supports_streaming |-> TRUE]]

TEMPERATURE_PRESETS ==
    [p \in {"coding", "data", "chat", "translation", "creative"} |->
        CASE p = "coding" -> 0
          [] p = "data" -> 10
          [] p \in {"chat", "translation"} -> 13
          [] OTHER -> 15]

(***************************************************************************)
(* Inputs.                                                                 *)
(***************************************************************************)
Roles == {"system", "user", "assistant"}
Texts == {"hello", "bye"}
SYSTEM_PROMPT == "You are a helpful assistant."
JSON_SYSTEM_PROMPT ==
    "You are a helpful assistant. Please provide all responses in valid JSON format."
SystemTexts == {SYSTEM_PROMPT, "Be brief."}

Message(role, content) == [role |-> role, content |-> content, prefix |-> FALSE]

(***************************************************************************)
(* ChatHandler (src/src/handlers/chat_handler.py)                          *)
(***************************************************************************)
\* self.stream_config; time_threshold is 0.2 s
StreamConfigInit ==
    [buffer_size_chars |-> 50,
     buffer_size_tokens |-> 15,
     time_threshold |-> 2,
     max_visible_chars |-> 8000,
     scroll_buffer |-> 1000,
     refresh_rate |-> 8,
     min_buffer_for_sentence |-> 20,
     min_buffer_for_time |-> 10,
     min_buffer_for_pause |-> 30]

ChatHandlerInit ==
    [messages |-> <<>>,
     model |-> "deepseek-chat",
     stream |-> TRUE,
     json_mode |-> FALSE,
     max_tokens |-> DEFAULT_MAX_TOKENS,
     functions |-> <<>>,
     prefix_mode |-> FALSE,
     temperature |-> DEFAULT_TEMPERATURE,
     frequency_penalty |-> 0,
     presence_penalty |-> 0,
     top_p |-> 10,
     stop_sequences |-> <<>>,
     stream_config |-> StreamConfigInit]

set_system_message(ch, content) ==
    IF ch.messages = <<>> \/ ch.messages[1].role # "system"
    THEN [ch EXCEPT !.messages = <<Message("system", content)>> \o @]
    ELSE [ch EXCEPT !.messages[1].content = content]

toggle_json_mode(ch) ==
    LET on == ~ch.json_mode
    IN  set_system_message([ch EXCEPT !.json_mode = on],
                           IF on THEN JSON_SYSTEM_PROMPT ELSE SYSTEM_PROMPT)

toggle_stream(ch) == [ch EXCEPT !.stream = ~@]

\* messages[-n:] of Python, for n >= 1
Min(a, b) == IF a <= b THEN a ELSE b
Max(a, b) == IF a >= b THEN a ELSE b

LastN(s, n) == IF Len(s) <= n THEN s ELSE SubSeq(s, Len(s) - n + 1, Len(s))

add_message_NoTrim(ch, role, content) ==
    [ch EXCEPT !.messages = Append(@, Message(role, content))]

add_message(ch, role, content) ==
    LET appended == Append(ch.messages, Message(role, content))
    IN  IF Len(appended) > MAX_HISTORY_LENGTH
        THEN IF appended[1].role = "system"
             THEN [ch EXCEPT !.messages =
                      <<appended[1]>> \o LastN(appended, MAX_HISTORY_LENGTH - 1)]
             ELSE [ch EXCEPT !.messages = LastN(appended, MAX_HISTORY_LENGTH)]
        ELSE [ch EXCEPT !.messages = appended]

\* clear_history as it would be if it also switched JSON mode off
clear_history_ResetsJsonMode(ch) ==
    IF ch.messages # <<>> /\ ch.messages[1].role = "system"
    THEN [ch EXCEPT !.messages = <<ch.messages[1]>>, !.json_mode = FALSE]
    ELSE [ch EXCEPT !.messages = <<>>, !.json_mode = FALSE]

clear_history(ch) ==
    IF ch.messages # <<>> /\ ch.messages[1].role = "system"
    THEN [ch EXCEPT !.messages = <<ch.messages[1]>>]
    ELSE [ch EXCEPT !.messages = <<>>]

switch_model_Unchecked(ch, model) ==
    [ch |-> [ch EXCEPT !.model = model,
                       !.max_tokens = IF model \in DOMAIN MODEL_CONFIGS
                                      THEN MODEL_CONFIGS[model].max_tokens
                                      ELSE DEFAULT_MAX_TOKENS],
     ret |-> model \in DOMAIN MODEL_CONFIGS]

switch_model(ch, model) ==
    IF model \in DOMAIN MODEL_CONFIGS
    THEN [ch |-> [ch EXCEPT !.model = model,
                            !.max_tokens = MODEL_CONFIGS[model].max_tokens],
          ret |-> TRUE]
    ELSE [ch |-> ch, ret |-> FALSE]

\* float(temp_str) on the strings the model feeds it: the value in tenths, a NaN,
\* or ValueError (ok = FALSE)
ParseFloat(s) ==
    CASE s = "0.7" -> [ok |-> TRUE, nan |-> FALSE, val |-> 7]
      [] s = "2" -> [ok |-> TRUE, nan |-> FALSE, val |-> 20]
      [] s = "2.1" -> [ok |-> TRUE, nan |-> FALSE, val |-> 21]
      [] s = "-0.1" -> [ok |-> TRUE, nan |-> FALSE, val |-> -1]
      [] s = "nan" -> [ok |-> TRUE, nan |-> TRUE, val |-> 0]
      [] OTHER -> [ok |-> FALSE, nan |-> FALSE, val |-> 0]

\* str.lower() on the strings the model feeds it
Lower(s) ==
    CASE s = "Coding" -> "coding"
      [] s = "Y" -> "y"
      [] OTHER -> s

set_temperature_Unchecked(ch, temp_str) ==
    LET f == ParseFloat(temp_str)
    IN  IF f.ok
        THEN [ch |-> [ch EXCEPT !.temperature = f.val], ret |-> TRUE]
        ELSE [ch |-> ch, ret |-> FALSE]

set_temperature(ch, temp_str) ==
    LET f == ParseFloat(temp_str)
        preset == Lower(temp_str)
    IN  IF f.ok
        THEN IF ~f.nan /\ 0 <= f.val /\ f.val <= 20
             THEN [ch |-> [ch EXCEPT !.temperature = f.val], ret |-> TRUE]
             ELSE [ch |-> ch, ret |-> FALSE]
        ELSE IF preset \in DOMAIN TEMPERATURE_PRESETS
             THEN [ch |-> [ch EXCEPT !.temperature = TEMPERATURE_PRESETS[preset]],
                   ret |-> TRUE]
             ELSE [ch |-> ch, ret |-> FALSE]

set_frequency_penalty(ch, penalty) ==
    IF -20 <= penalty /\ penalty <= 20
    THEN [ch |-> [ch EXCEPT !.frequency_penalty = penalty], ret |-> TRUE]
    ELSE [ch |-> ch, ret |-> FALSE]

set_presence_penalty(ch, penalty) ==
    IF -20 <= penalty /\ penalty <= 20
    THEN [ch |-> [ch EXCEPT !.presence_penalty = penalty], ret |-> TRUE]
    ELSE [ch |-> ch, ret |-> FALSE]

set_top_p(ch, top_p) ==
    IF 0 <= top_p /\ top_p <= 10
    THEN [ch |-> [ch EXCEPT !.top_p = top_p], ret |-> TRUE]
    ELSE [ch |-> ch, ret |-> FALSE]

\* add_function as it would be if the test let one more entry in
add_function_OneTooMany(ch, function) ==
    IF Len(ch.functions) > MAX_FUNCTIONS
    THEN [ch |-> ch, ret |-> FALSE]
    ELSE [ch |-> [ch EXCEPT !.functions = Append(@, function)], ret |-> TRUE]

add_function(ch, function) ==
    IF Len(ch.functions) >= MAX_FUNCTIONS
    THEN [ch |-> ch, ret |-> FALSE]
    ELSE [ch |-> [ch EXCEPT !.functions = Append(@, function)], ret |-> TRUE]

clear_functions(ch) == [ch EXCEPT !.functions = <<>>]

\* add_stop_sequence as it would be if a full list dropped its oldest entry
add_stop_sequence_DropsOldest(ch, sequence) ==
    IF Len(ch.stop_sequences) >= MAX_STOP_SEQUENCES
    THEN [ch |-> [ch EXCEPT !.stop_sequences = Append(Tail(@), sequence)],
          ret |-> FALSE]
    ELSE [ch |-> [ch EXCEPT !.stop_sequences = Append(@, sequence)], ret |-> TRUE]

add_stop_sequence(ch, sequence) ==
    IF Len(ch.stop_sequences) >= MAX_STOP_SEQUENCES
    THEN [ch |-> ch, ret |-> FALSE]
    ELSE [ch |-> [ch EXCEPT !.stop_sequences = Append(@, sequence)], ret |-> TRUE]

clear_stop_sequences(ch) == [ch EXCEPT !.stop_sequences = <<>>]

\* the prefix-mode branch of prepare_chat_request: the last message of
\* self.messages is replaced in place
PrefixRewrite(ch) ==
    IF ch.prefix_mode /\ ch.messages # <<>>
         /\ ch.messages[Len(ch.messages)].role = "user"
    THEN [ch EXCEPT !.messages[Len(ch.messages)] =
             [role |-> "assistant", content |-> @.content, prefix |-> TRUE]]
    ELSE ch

\* the keys of the kwargs dict prepare_chat_request returns
KwargsKeys(ch) ==
    {"model", "messages", "stream", "max_tokens"}
      \cup (IF ch.model # "deepseek-reasoner"
            THEN {"temperature", "frequency_penalty", "presence_penalty", "top_p"}
                   \cup (IF ch.json_mode THEN {"response_format"} ELSE {})
                   \cup (IF ch.functions # <<>> THEN {"tools"} ELSE {})
            ELSE {})
      \cup (IF ch.stop_sequences # <<>> THEN {"stop"} ELSE {})
      \cup (IF ch.stream THEN {"stream_options"} ELSE {})

KwargsValue(ch, k) ==
    CASE k = "model" -> ch.model
      [] k = "messages" -> ch.messages
      [] k = "stream" -> ch.stream
      [] k = "max_tokens" -> ch.max_tokens
      [] k = "temperature" -> ch.temperature
      [] k = "frequency_penalty" -> ch.frequency_penalty
      [] k = "presence_penalty" -> ch.presence_penalty
      [] k = "top_p" -> ch.top_p
      [] k = "response_format" -> [type |-> "json_object"]
      [] k = "tools" ->
            [i \in 1..Len(ch.functions) |->
                [type |-> "function", function |-> ch.functions[i]]]
      [] k = "stop" -> ch.stop_sequences
      [] k = "stream_options" -> [include_usage |-> TRUE]

\* kwargs["messages"] is the list object self.messages itself, so the request
\* carries the history as it stands when the method returns
prepare_chat_request(ch) ==
    LET after == PrefixRewrite(ch)
    IN  [ch |-> after,
         ret |-> [k \in KwargsKeys(ch) |-> KwargsValue(after, k)]]

(***************************************************************************)
(* The streaming controller: ChatHandler.stream_response and the two       *)
(* display functions.  A text is a sequence of characters.  A chunk of the *)
(* response is [null, content]: null when delta.content is None.           *)
(***************************************************************************)
\* the non-ASCII members are named by their code points
SENTENCE_ENDS == {".", "!", "?", "\n", "u3002", "uFF01", "uFF1F"}
PAUSE_INDICATORS == {",", ";", "uFF0C", "uFF1B", "\n"}
\* the characters str.lstrip() removes, among those the model feeds it
Whitespace == {" ", "\n", "\t"}

\* s[start:] of Python, start of either sign
From(s, start) ==
    IF start < 0
    THEN LastN(s, 0 - start)
    ELSE SubSeq(s, start + 1, Len(s))

\* s[:stop] of Python, stop >= 0
Upto(s, stop) == SubSeq(s, 1, Min(stop, Len(s)))

\* any(char in s for char in chars)
ContainsAny(s, chars) == \E i \in 1..Len(s) : s[i] \in chars

\* s.lstrip()
LStrip(s) ==
    IF \A i \in 1..Len(s) : s[i] \in Whitespace
    THEN <<>>
    ELSE LET first == CHOOSE i \in 1..Len(s) :
                          /\ s[i] \notin Whitespace
                          /\ \A j \in 1..(i - 1) : s[j] \in Whitespace
         IN  SubSeq(s, first, Len(s))

\* the loop shared by the two display functions: cut s after the first
\* sentence end among its first 200 characters and strip what follows
AfterFirstSentenceEnd(s) ==
    LET head == Upto(s, 200)
    IN  IF ContainsAny(head, SENTENCE_ENDS)
        THEN LET i == CHOOSE i \in 1..Len(head) :
                          /\ head[i] \in SENTENCE_ENDS
                          /\ \A j \in 1..(i - 1) : head[j] \notin SENTENCE_ENDS
             IN  LStrip(From(s, i))
        ELSE s

ELLIPSIS ==
    <<".", ".", ".", "\n", "\n">>

\* the window as it would be if it were shown from its first character
_prepare_display_content_Uncut(full_response, response_length, max_visible_chars, scroll_buffer) ==
    IF response_length <= max_visible_chars
    THEN full_response
    ELSE ELLIPSIS \o From(full_response,
                          response_length - max_visible_chars + scroll_buffer)

_prepare_display_content(full_response, response_length, max_visible_chars, scroll_buffer) ==
    IF response_length <= max_visible_chars
    THEN full_response
    ELSE LET truncate_start == response_length - max_visible_chars + scroll_buffer
             truncate_content == From(full_response, truncate_start)
         IN  ELLIPSIS \o AfterFirstSentenceEnd(truncate_content)

OMISSION_MARKER ==
    <<"\n", "\n", ".", ".", ".", "[", "C", "o", "n", "t", "e", "n",
      "t", " ", "t", "o", "o", " ", "l", "o", "n", "g", ",", " ",
      "s", "o", "m", "e", " ", "p", "a", "r", "t", "s", " ", "o",
      "m", "i", "t", "t", "e", "d", "]", ".", ".", ".", "\n", "\n">>

\* the backward loop: i runs from len - 1 down to max(len - 200, 0) + 1
SentenceAlignedHead(start_part) ==
    LET ends == {i \in (Max(Len(start_part) - 200, 0) + 1)..(Len(start_part) - 1) :
                     start_part[i + 1] \in SENTENCE_ENDS}
    IN  IF ends = {}
        THEN start_part
        ELSE Upto(start_part, (CHOOSE i \in ends : \A j \in ends : j <= i) + 1)

\* the final display as it would be if the tail filled what the head and the
\* marker leave of the budget
_prepare_final_display_content_TailFillsBudget(full_response, max_visible_chars) ==
    IF Len(full_response) <= max_visible_chars
    THEN full_response
    ELSE LET start_part == SentenceAlignedHead(Upto(full_response, 2000))
             end_part == From(full_response,
                              0 - (max_visible_chars - Len(start_part)
                                       - Len(OMISSION_MARKER)))
         IN  start_part \o OMISSION_MARKER \o AfterFirstSentenceEnd(end_part)

_prepare_final_display_content(full_response, max_visible_chars) ==
    IF Len(full_response) <= max_visible_chars
    THEN full_response
    ELSE LET start_part == Upto(full_response, 2000)
             end_part == From(full_response, 0 - (max_visible_chars - 2200))
         IN  SentenceAlignedHead(start_part) \o OMISSION_MARKER
                 \o AfterFirstSentenceEnd(end_part)

\* configure_stream_settings(**kwargs): kwargs is a function from its keys to
\* their values; a key that is not a setting is ignored
configure_stream_settings(ch, kwargs) ==
    LET valid_keys == {"buffer_size_chars", "buffer_size_tokens", "time_threshold",
                       "max_visible_chars", "scroll_buffer", "refresh_rate",
                       "min_buffer_for_sentence", "min_buffer_for_time",
                       "min_buffer_for_pause"}
        config == [key \in DOMAIN ch.stream_config |->
                      IF key \in valid_keys /\ key \in DOMAIN kwargs
                      THEN kwargs[key]
                      ELSE ch.stream_config[key]]
    IN  [ch |-> [ch EXCEPT !.stream_config = config],
         ret |-> [updated |-> [key \in valid_keys \cap DOMAIN kwargs |-> kwargs[key]],
                  current_config |-> config]]

\* the chain as it would be if the sentence rule had no floor on the buffer
RefreshReason_NoSentenceFloor(config, buffer, time_since_last_update) ==
    IF Len(buffer) >= config.buffer_size_chars
    THEN "buffer_size"
    ELSE IF ContainsAny(buffer, SENTENCE_ENDS)
    THEN "sentence_end"
    ELSE IF /\ time_since_last_update >= config.time_threshold
            /\ Len(buffer) >= config.min_buffer_for_time
    THEN "time_threshold"
    ELSE None

\* the chain as it would be if the time rule were tested before the
\* sentence rule
RefreshReason_TimeBeforeSentence(config, buffer, time_since_last_update) ==
    LET buffer_length == Len(buffer)
    IN  IF buffer_length >= config.buffer_size_chars
        THEN "buffer_size"
        ELSE IF /\ time_since_last_update >= config.time_threshold
                /\ buffer_length >= config.min_buffer_for_time
        THEN "time_threshold"
        ELSE IF /\ buffer_length >= config.min_buffer_for_sentence
                /\ ContainsAny(buffer, SENTENCE_ENDS)
        THEN "sentence_end"
        ELSE IF /\ buffer_length >= config.min_buffer_for_pause
                /\ ContainsAny(From(buffer, 0 - 5), PAUSE_INDICATORS)
        THEN "pause_indicator"
        ELSE IF buffer_length >= config.buffer_size_chars * 2
        THEN "force_refresh"
        ELSE None

\* the chain as it would be if the forced refresh were tested first
RefreshReason_ForceFirst(config, buffer, time_since_last_update) ==
    LET buffer_length == Len(buffer)
    IN  IF buffer_length >= config.buffer_size_chars * 2
        THEN "force_refresh"
        ELSE IF buffer_length >= config.buffer_size_chars
        THEN "buffer_size"
        ELSE IF /\ buffer_length >= config.min_buffer_for_sentence
                /\ ContainsAny(buffer, SENTENCE_ENDS)
        THEN "sentence_end"
        ELSE IF /\ time_since_last_update >= config.time_threshold
                /\ buffer_length >= config.min_buffer_for_time
        THEN "time_threshold"
        ELSE IF /\ buffer_length >= config.min_buffer_for_pause
                /\ ContainsAny(From(buffer, 0 - 5), PAUSE_INDICATORS)
        THEN "pause_indicator"
        ELSE None

\* the if / elif chain of the loop body: the reason of the refresh, None when
\* no condition holds
RefreshReason(config, buffer, time_since_last_update) ==
    LET buffer_length == Len(buffer)
    IN  IF buffer_length >= config.buffer_size_chars
        THEN "buffer_size"
        ELSE IF /\ buffer_length >= config.min_buffer_for_sentence
                /\ ContainsAny(buffer, SENTENCE_ENDS)
        THEN "sentence_end"
        ELSE IF /\ time_since_last_update >= config.time_threshold
                /\ buffer_length >= config.min_buffer_for_time
        THEN "time_threshold"
        ELSE IF /\ buffer_length >= config.min_buffer_for_pause
                /\ ContainsAny(From(buffer, 0 - 5), PAUSE_INDICATORS)
        THEN "pause_indicator"
        ELSE IF buffer_length >= config.buffer_size_chars * 2
        THEN "force_refresh"
        ELSE None

\* stream_response, one invocation:
\*   pc        idle | loop (inside `for chunk in response`) | returned
\*   response  the chunks the transport will yield, next the one to come
\*   arrivals  for each chunk handled, the time between it and the chunk
\*             before it (the start of the call for the first)
\*   elapsed   current_time - last_update_time at the last chunk handled
\*   refreshes the live.update calls made in the loop: [reason, chunk]
\*   display   the text last passed to live.update
\*   complete  the final bubble has been shown
\*   failed    the except branch was taken
\*   ret       the value returned
StreamStarted(response) ==
    [pc |-> "loop",
     response |-> response,
     next |-> 1,
     full_response |-> <<>>,
     buffer |-> <<>>,
     chunk_count |-> 0,
     arrivals |-> <<>>,
     elapsed |-> 0,
     refreshes |-> <<>>,
     display |-> <<>>,
     complete |-> FALSE,
     failed |-> FALSE,
     ret |-> <<>>]

\* the body of the loop for the next chunk, which arrives gap after the
\* chunk before it
StreamChunkHandled(config, st, gap) ==
    LET chunk == st.response[st.next]
        full_response == st.full_response \o chunk.content
        buffer == st.buffer \o chunk.content
        chunk_count == st.chunk_count + 1
        time_since_last_update == st.elapsed + gap
        refresh_reason == RefreshReason(config, buffer, time_since_last_update)
    IN  IF chunk.null
        THEN [st EXCEPT !.next = @ + 1, !.elapsed = @ + gap,
                        !.arrivals = Append(@, gap)]
        ELSE IF refresh_reason # None
        THEN [st EXCEPT
                 !.next = @ + 1,
                 !.arrivals = Append(@, gap),
                 !.full_response = full_response,
                 !.chunk_count = chunk_count,
                 !.display = _prepare_display_content(
                                 full_response, Len(full_response),
                                 config.max_visible_chars, config.scroll_buffer),
                 !.refreshes = Append(@, [reason |-> refresh_reason,
                                          chunk |-> st.next]),
                 !.buffer = <<>>,
                 !.elapsed = 0]
        ELSE [st EXCEPT
                 !.next = @ + 1,
                 !.arrivals = Append(@, gap),
                 !.full_response = full_response,
                 !.buffer = buffer,
                 !.chunk_count = chunk_count,
                 !.elapsed = time_since_last_update]

\* the end of the call as it would be if the text shown were the text kept
StreamCompleted_FoldsDisplay(ch, st) ==
    LET shown == _prepare_final_display_content(
                     st.full_response, ch.stream_config.max_visible_chars)
    IN  IF st.full_response # <<>>
        THEN [ch |-> [ch EXCEPT !.messages =
                          Append(@, Message("assistant", shown))],
              st |-> [st EXCEPT !.pc = "returned", !.display = shown,
                                !.complete = TRUE, !.ret = shown]]
        ELSE [ch |-> ch, st |-> [st EXCEPT !.pc = "returned", !.ret = <<>>]]

\* the response is exhausted: the final bubble, the append to the history
\* and the return
StreamCompleted(ch, st) ==
    IF st.full_response # <<>>
    THEN [ch |-> [ch EXCEPT !.messages =
                      Append(@, Message("assistant", st.full_response))],
          st |-> [st EXCEPT
                     !.pc = "returned",
                     !.display = _prepare_final_display_content(
                                     st.full_response,
                                     ch.stream_config.max_visible_chars),
                     !.complete = TRUE,
                     !.ret = st.full_response]]
    ELSE [ch |-> ch, st |-> [st EXCEPT !.pc = "returned", !.ret = <<>>]]

\* the iteration of the response raised: the except branch
StreamFailed(st) ==
    [st EXCEPT !.pc = "returned", !.failed = TRUE, !.ret = st.full_response]

(***************************************************************************)
(* APIClient (src/src/api/client.py)                                       *)
(***************************************************************************)
APIClientInit ==
    [current_model |-> DEFAULT_MODEL,
     beta_mode |-> FALSE,
     api_keys |-> [deepseek |-> "env-key", openai |-> None, anthropic |-> None,
                   gemini |-> None, ollama |-> None]]

toggle_beta(api) == [api EXCEPT !.beta_mode = ~@]

set_model(api, model) ==
    IF model \in DOMAIN MODEL_CONFIGS
    THEN [api EXCEPT !.current_model = model]
    ELSE api

(***************************************************************************)
(* ErrorHandler (src/src/handlers/error_handler.py)                        *)
(*                                                                         *)
(* An error raised by the wrapped request is [rate_limit, status_code,     *)
(* retry_after]: whether it is a RateLimitError, its status_code attribute *)
(* (None when it has none) and its 'retry-after' header (None when it has  *)
(* none).  Status codes are strings, so that None is one of them.          *)
(***************************************************************************)
ErrorHandlerInit ==
    [max_retries |-> DEFAULT_MAX_RETRIES,
     retry_delay |-> DEFAULT_RETRY_DELAY,
     max_retry_delay |-> DEFAULT_MAX_RETRY_DELAY]

StatusMessages == {"400", "401", "403", "404", "429", "500", "503"}

\* int(s) on the header values the model feeds it; 0 - 1 stands for ValueError
ParseInt(s) == IF s = "5" THEN 5 ELSE 0 - 1

IsRateLimit(e) == e.rate_limit \/ e.status_code = "429"

\* handle_error as it would be if the retry question were put for every
\* status of the table and not only for 500 and 503
handle_error_AskEveryStatus(eh, e, has_client, answer) ==
    IF IsRateLimit(e)
    THEN [ret |-> "retry", slept |-> <<eh.retry_delay>>, asked |-> FALSE,
          raised |-> None]
    ELSE IF e.status_code \in StatusMessages /\ e.status_code # "401"
         THEN IF Lower(answer) = "y"
              THEN [ret |-> "retry", slept |-> <<>>, asked |-> TRUE,
                    raised |-> None]
              ELSE [ret |-> None, slept |-> <<>>, asked |-> TRUE,
                    raised |-> None]
         ELSE [ret |-> None, slept |-> <<>>, asked |-> FALSE, raised |-> None]

\* handle_error as it would be if the key replacement went through: a 401
\* answered with y returns "retry"
handle_error_KeyReplaced(eh, e, has_client, answer) ==
    IF IsRateLimit(e)
    THEN [ret |-> "retry", slept |-> <<eh.retry_delay>>, asked |-> FALSE,
          raised |-> None]
    ELSE IF e.status_code = "401" /\ has_client
         THEN IF Lower(answer) = "y"
              THEN [ret |-> "retry", slept |-> <<>>, asked |-> TRUE,
                    raised |-> None]
              ELSE [ret |-> None, slept |-> <<>>, asked |-> TRUE,
                    raised |-> None]
         ELSE [ret |-> None, slept |-> <<>>, asked |-> FALSE, raised |-> None]

\* handle_error: [ret, slept, asked, raised]: the value returned ("retry" or
\* None), the seconds slept, whether input() put a question to the user, and
\* the exception that left the method instead of a value (None when it
\* returned)
handle_error(eh, e, has_client, answer) ==
    IF IsRateLimit(e)
    THEN IF e.retry_after = None
         THEN [ret |-> "retry", slept |-> <<eh.retry_delay>>, asked |-> FALSE,
               raised |-> None]
         ELSE IF ParseInt(e.retry_after) < 0
              THEN [ret |-> None, slept |-> <<>>, asked |-> FALSE,
                    raised |-> "ValueError"]
              ELSE [ret |-> "retry", slept |-> <<ParseInt(e.retry_after)>>,
                    asked |-> FALSE, raised |-> None]
    ELSE IF e.status_code \in StatusMessages
         THEN IF e.status_code = "401" /\ has_client
              THEN IF Lower(answer) = "y"
                   \* api_client.update_api_key(key): the method takes
                   \* (provider, new_key), so the call raises TypeError
                   THEN [ret |-> None, slept |-> <<>>, asked |-> TRUE,
                         raised |-> "TypeError"]
                   ELSE [ret |-> None, slept |-> <<>>, asked |-> TRUE,
                         raised |-> None]
              ELSE IF e.status_code \in {"500", "503"}
                   THEN IF Lower(answer) = "y"
                        THEN [ret |-> "retry", slept |-> <<>>, asked |-> TRUE,
                              raised |-> None]
                        ELSE [ret |-> None, slept |-> <<>>, asked |-> TRUE,
                              raised |-> None]
                   ELSE [ret |-> None, slept |-> <<>>, asked |-> FALSE,
                         raised |-> None]
         ELSE [ret |-> None, slept |-> <<>>, asked |-> FALSE, raised |-> None]

\* retry_with_backoff, one invocation:
\*   pc        idle | call (about to call func) | handle (func raised) |
\*             returned | raised
\*   attempts  calls of func made
\*   errors    the errors func raised, in order
\*   raised    the exception that left the engine: the error func raised, or
\*             [type |-> T] for an exception of type T raised by the except
\*             branch itself; [type |-> None] while nothing has left it
\*   sleeps    the time.sleep calls made, in order
\*   waits     per handled failure, the time.sleep calls made before the next
\*             attempt (or before the error left the engine)
\*   answers   per handled failure, what the user typed at the prompt, None
\*             when handle_error asked nothing
EngineStarted(eh, has_client) ==
    [pc |-> "call",
     has_client |-> has_client,
     current_delay |-> eh.retry_delay,
     attempts |-> 0,
     errors |-> <<>>,
     sleeps |-> <<>>,
     waits |-> <<>>,
     answers |-> <<>>,
     raised |-> [type |-> None]]

\* func() returned
EngineReturned(en) == [en EXCEPT !.pc = "returned", !.attempts = @ + 1]

\* func() raised e
EngineFailed(en, e) ==
    [en EXCEPT !.pc = "handle", !.attempts = @ + 1, !.errors = Append(@, e)]

\* the except branch of the loop
EngineHandled(eh, en, answer) ==
    LET e == en.errors[Len(en.errors)]
        h == handle_error(eh, e, en.has_client, answer)
        typed == IF h.asked THEN answer ELSE None
    IN  IF h.raised # None
        THEN [en EXCEPT !.pc = "raised", !.raised = [type |-> h.raised],
                        !.sleeps = @ \o h.slept,
                        !.waits = Append(@, h.slept),
                        !.answers = Append(@, typed)]
        ELSE IF h.ret = "retry"
             THEN [en EXCEPT !.pc = "call",
                             !.sleeps = @ \o h.slept \o <<en.current_delay>>,
                             !.waits = Append(@, h.slept \o <<en.current_delay>>),
                             !.answers = Append(@, typed),
                             !.current_delay =
                                 Min(en.current_delay * 2, eh.max_retry_delay)]
             ELSE [en EXCEPT !.pc = "raised", !.raised = e,
                             !.sleeps = @ \o h.slept,
                             !.waits = Append(@, h.slept),
                             !.answers = Append(@, typed)]

(***************************************************************************)
(* DeepSeekCLI of the package (src/src/cli/deepseek_cli.py) and the        *)
(* request path of APIClient it goes through.  Texts are sequences of      *)
(* characters here, a response is [content, chunks].                       *)
(***************************************************************************)
PROVIDER_API_KEYS ==
    [deepseek |-> "DEEPSEEK_API_KEY", openai |-> "OPENAI_API_KEY",
     anthropic |-> "ANTHROPIC_API_KEY", gemini |-> "GEMINI_API_KEY",
     ollama |-> None]

\* no model name of this model outside the catalogue holds a "/"
get_provider_for_model(model) ==
    IF model \in DOMAIN MODEL_CONFIGS THEN MODEL_CONFIGS[model].provider
    ELSE "unknown"

\* typed is what the user enters at the key prompt, stripped
check_api_key(api, model, typed) ==
    LET provider == get_provider_for_model(model)
    IN  IF provider = "ollama" THEN [api |-> api, ret |-> TRUE]
        ELSE IF provider \notin DOMAIN PROVIDER_API_KEYS
                  \/ PROVIDER_API_KEYS[provider] = None
             THEN [api |-> api, ret |-> TRUE]
        ELSE IF api.api_keys[provider] \notin {None, ""}
             THEN [api |-> api, ret |-> TRUE]
        ELSE IF typed # ""
             THEN [api |-> [api EXCEPT !.api_keys[provider] = typed], ret |-> TRUE]
        ELSE [api |-> api, ret |-> FALSE]

\* DeepSeekError(message): an exception made of a message only; cause is
\* the exception whose str() the message quotes
DeepSeekError(cause) ==
    [rate_limit |-> FALSE, status_code |-> None, retry_after |-> None,
     cause |-> cause]

NoException == [type |-> None]
NoResponse == [content |-> <<>>, chunks |-> <<>>]

\* outcome is what completion(**kwargs) does: it raises outcome.error when
\* outcome.raises = "create", and returns outcome.response otherwise
create_chat_completion(api, kwargs, typed, outcome) ==
    LET model == IF "model" \in DOMAIN kwargs THEN kwargs["model"]
                 ELSE api.current_model
        key == check_api_key(api, model, typed)
    IN  IF ~key.ret
        THEN [api |-> key.api, raised |-> TRUE,
              error |-> DeepSeekError([type |-> "DeepSeekError"]),
              response |-> NoResponse]
        ELSE IF outcome.raises = "create"
        THEN [api |-> key.api, raised |-> TRUE,
              error |-> DeepSeekError(outcome.error), response |-> NoResponse]
        ELSE [api |-> key.api, raised |-> FALSE, error |-> NoException,
              response |-> outcome.response]

\* DeepSeekCLI.stream_response: the contents of the chunks, joined
RECURSIVE stream_response(_)
stream_response(response) ==
    IF response = <<>> THEN <<>>
    ELSE (IF Head(response).null THEN <<>> ELSE Head(response).content)
             \o stream_response(Tail(response))

\* make_request of get_completion; the iteration of a streamed response
\* yields outcome.response.chunks and then raises outcome.error when
\* outcome.raises = "stream"; printed is what stream_response has written to
\* the terminal by then.  The requests of the model carry no tools, so
\* message.tool_calls is empty.
make_request(ch, api, kwargs, typed, outcome) ==
    LET c == create_chat_completion(api, kwargs, typed, outcome)
    IN  IF c.raised
        THEN [api |-> c.api, raised |-> TRUE, error |-> c.error, ret |-> <<>>,
              printed |-> <<>>]
        ELSE IF ch.stream
        THEN IF outcome.raises = "stream"
             THEN [api |-> c.api, raised |-> TRUE, error |-> outcome.error,
                   ret |-> <<>>,
                   printed |-> stream_response(c.response.chunks)]
             ELSE [api |-> c.api, raised |-> FALSE, error |-> NoException,
                   ret |-> stream_response(c.response.chunks),
                   printed |-> stream_response(c.response.chunks)]
        ELSE [api |-> c.api, raised |-> FALSE, error |-> NoException,
              ret |-> c.response.content, printed |-> <<>>]

(***************************************************************************)
(* DeepSeekCLI, the single-file client (src/deepseek_cli.py)               *)
(***************************************************************************)
\* the rows of self.model_configs; a model without a beta limit has 0 there
CliModelConfigs ==
    [m \in {"deepseek-chat", "deepseek-reasoner", "deepseek-coder"} |->
        [max_tokens |-> 64000,
         max_output |-> IF m = "deepseek-reasoner" THEN 8192 ELSE 4096,
         beta_max_output |-> IF m = "deepseek-reasoner" THEN 0 ELSE 8192]]

CliInit ==
    [beta_mode |-> FALSE,
     base_url |-> "https://api.deepseek.com/v1",
     api_key |-> "env-key",
     messages |-> <<>>,
     conversation_turn |-> 0,
     model |-> "deepseek-chat",
     stream |-> FALSE,
     json_mode |-> FALSE,
     max_tokens |-> 4096,
     functions |-> <<>>,
     prefix_mode |-> FALSE,
     fim_mode |-> FALSE,
     context_cache |-> TRUE,
     temperature |-> 10,
     frequency_penalty |-> 0,
     presence_penalty |-> 0,
     top_p |-> 10,
     stop_sequences |-> <<>>]

cli_toggle_beta(c) ==
    [c EXCEPT !.beta_mode = ~@,
              !.base_url = IF ~c.beta_mode THEN "https://api.deepseek.com/beta"
                           ELSE "https://api.deepseek.com/v1"]

cli_toggle_prefix_mode(c) ==
    IF ~c.beta_mode THEN c ELSE [c EXCEPT !.prefix_mode = ~@]

cli_toggle_fim_mode(c) ==
    IF ~c.beta_mode THEN c ELSE [c EXCEPT !.fim_mode = ~@]

cli_toggle_stream(c) == [c EXCEPT !.stream = ~@]

\* the same code as ChatHandler.set_system_message, on the client's own list
cli_set_system_message(c, content) == set_system_message(c, content)

cli_toggle_json_mode(c) ==
    LET on == ~c.json_mode
    IN  cli_set_system_message([c EXCEPT !.json_mode = on],
                               IF on THEN JSON_SYSTEM_PROMPT ELSE SYSTEM_PROMPT)

cli_switch_model(c, model) ==
    IF model \in {"deepseek-chat", "deepseek-coder", "deepseek-reasoner"}
    THEN LET reset ==
                 IF model = "deepseek-reasoner"
                 THEN [c EXCEPT !.json_mode = FALSE,
                                !.functions = <<>>,
                                !.temperature = 10,
                                !.top_p = 10,
                                !.presence_penalty = 0,
                                !.frequency_penalty = 0]
                 ELSE c
         IN  [reset EXCEPT !.model = model,
                           !.max_tokens = CliModelConfigs[model].max_tokens]
    ELSE c

\* the output limit switch_model prints for the model
CliMaxOutput(c, model) ==
    IF c.beta_mode /\ model # "deepseek-reasoner"
    THEN CliModelConfigs[model].beta_max_output
    ELSE CliModelConfigs[model].max_output

cli_set_temperature(c, temp_str) == set_temperature(c, temp_str).ch

\* json.loads(function_json) on the strings the model feeds it
ParsesAsJson(s) == s # "{not json"

cli_add_function(c, function_json) ==
    IF ~ParsesAsJson(function_json) \/ Len(c.functions) >= 128
    THEN c
    ELSE [c EXCEPT !.functions = Append(@, function_json)]

\* /clear
cli_clear(c) ==
    [c EXCEPT !.messages = IF c.messages # <<>> /\ c.messages[1].role = "system"
                           THEN <<c.messages[1]>> ELSE <<>>,
              !.conversation_turn = 0]

FimText == "<fim_prefix>a</fim_prefix><fim_suffix>b</fim_suffix>"
\* "<fim_prefix>" in content and "<fim_suffix>" in content, and the two splits,
\* on the strings the model feeds it
HasFimTags(content) == content = FimText
FimPrefix(content) == "a"
FimSuffix(content) == "b"

JSON_REMINDER == " Please ensure all responses are valid JSON."

\* get_completion, up to the request: `messages` is self.messages itself, so
\* every rewrite below lands in the stored history
CliJsonReminder(c) ==
    IF c.model # "deepseek-reasoner" /\ c.json_mode
         /\ c.messages # <<>> /\ c.messages[1].role = "system"
    THEN [c EXCEPT !.messages[1].content = @ \o JSON_REMINDER]
    ELSE c

CliPrefixRewrite(c) ==
    IF c.prefix_mode /\ c.messages[Len(c.messages)].role = "user"
    THEN [c EXCEPT !.messages[Len(c.messages)] =
             [role |-> "assistant", content |-> @.content, prefix |-> TRUE]]
    ELSE c

CliFimRewrite(c) ==
    LET last == c.messages[Len(c.messages)]
    IN  IF c.fim_mode /\ last.role = "user" /\ HasFimTags(last.content)
        THEN [c EXCEPT !.messages[Len(c.messages)] =
                 [role |-> "assistant", content |-> "", prefix |-> FALSE,
                  fim_prefix |-> FimPrefix(last.content),
                  fim_suffix |-> FimSuffix(last.content)]]
        ELSE c

CliKwargsKeys(c) ==
    {"model", "messages", "stream", "max_tokens", "context_cache"}
      \cup (IF c.model # "deepseek-reasoner"
            THEN {"temperature", "frequency_penalty", "presence_penalty", "top_p"}
                   \cup (IF c.json_mode THEN {"response_format"} ELSE {})
                   \cup (IF c.functions # <<>> THEN {"tools"} ELSE {})
            ELSE {})
      \cup (IF c.stop_sequences # <<>> THEN {"stop"} ELSE {})
      \cup (IF c.stream THEN {"stream_options"} ELSE {})

CliKwargs(c) ==
    [k \in CliKwargsKeys(c) |->
        IF k = "context_cache" THEN c.context_cache ELSE KwargsValue(c, k)]

\* What retry_with_exponential_backoff(make_request) comes to:
\*   content        a reply with text
\*   reasoning      a reply with text and a reasoning trace (the reasoner, not
\*                  streaming)
\*   empty          a reply without text
\*   function_call  a function call (not streaming)
\*   error          no reply: a fatal error, or every attempt failed
CliReplies(c) ==
    {"content", "empty", "error"}
      \cup (IF ~c.stream THEN {"function_call"} ELSE {})
      \cup (IF ~c.stream /\ c.model = "deepseek-reasoner" THEN {"reasoning"} ELSE {})

REPLY_TEXT == "reply"
FUNCTION_CALL_JSON == "{function_call}"

CliResponse(reply) ==
    CASE reply \in {"content", "reasoning"} -> REPLY_TEXT
      [] reply = "function_call" -> FUNCTION_CALL_JSON
      [] reply = "empty" -> ""
      [] OTHER -> None

\* Python's truth value of the response
Truthy(response) == response # None /\ response # ""

cli_get_completion(c, reply) ==
    LET composed == CliFimRewrite(CliPrefixRewrite(CliJsonReminder(c)))
        kwargs == CliKwargs(composed)
        response == CliResponse(reply)
        requested ==
            IF reply = "reasoning"
            THEN [composed EXCEPT !.messages =
                     Append(@, [role |-> "assistant", content |-> response,
                                prefix |-> FALSE, reasoning_content |-> "because"])]
            ELSE composed
    IN  [cli |-> IF Truthy(response)
                 THEN [requested EXCEPT !.conversation_turn = @ + 1]
                 ELSE requested,
         kwargs |-> kwargs,
         response |-> response]

\* one pass of the loop of run() on a line that is no command
cli_turn(c, user_input, reply) ==
    LET asked == [c EXCEPT !.messages = Append(@, Message("user", user_input))]
        got == cli_get_completion(asked, reply)
    IN  [cli |-> IF Truthy(got.response)
                 THEN [got.cli EXCEPT !.messages =
                          Append(@, Message("assistant", got.response))]
                 ELSE got.cli,
         kwargs |-> got.kwargs,
         response |-> got.response]

(***************************************************************************)
(* A session that has already run: the history after n add_message calls,  *)
(* user and assistant in turn, as DeepSeekCLI.get_completion makes them.   *)
(* Message i has the text ToString(i).  n stays below the cap, so none of  *)
(* these calls trims.                                                      *)
(***************************************************************************)
SessionHistory(n) ==
    [i \in 1..n |->
        Message(IF i % 2 = 1 THEN "user" ELSE "assistant", ToString(i))]

Prefill(ch, n) == [ch EXCEPT !.messages = @ \o SessionHistory(n)]

PrefillLengths ==
    {0} \cup ((MAX_HISTORY_LENGTH - NearCap)..(MAX_HISTORY_LENGTH - 1))

\* no invocation of the engine is under way
EngineIdle == [pc |-> "idle"]

\* no invocation of stream_response is under way
StreamIdle == [pc |-> "idle"]

Called(op, arg, ret) ==
    /\ result' = [op |-> op, arg |-> arg, ret |-> ret]
    /\ calls' = calls + 1

(***************************************************************************)
(* Calls on the ChatHandler and the commands of CommandHandler that reach  *)
(* it.                                                                     *)
(***************************************************************************)
SetSystemMessage ==
    \E content \in SystemTexts :
        /\ calls < MaxCalls
        /\ chat_handler' = set_system_message(chat_handler, content)
        /\ Called("set_system_message", content, None)
        /\ UNCHANGED <<api_client, engine, cli, stream>>

AddMessage ==
    \E role \in Roles, content \in Texts :
        /\ calls < MaxCalls
        /\ chat_handler' = add_message(chat_handler, role, content)
        /\ Called("add_message", <<role, content>>, None)
        /\ UNCHANGED <<api_client, engine, cli, stream>>

\* /clear
ClearHistory ==
    /\ calls < MaxCalls
    /\ chat_handler' = clear_history(chat_handler)
    /\ Called("clear_history", None, None)
    /\ UNCHANGED <<api_client, engine, cli, stream>>

\* /json
ToggleJsonMode ==
    /\ calls < MaxCalls
    /\ chat_handler' = toggle_json_mode(chat_handler)
    /\ Called("toggle_json_mode", None, None)
    /\ UNCHANGED <<api_client, engine, cli, stream>>

\* /stream
ToggleStream ==
    /\ calls < MaxCalls
    /\ chat_handler' = toggle_stream(chat_handler)
    /\ Called("toggle_stream", None, None)
    /\ UNCHANGED <<api_client, engine, cli, stream>>

\* /beta
ToggleBeta ==
    /\ calls < MaxCalls
    /\ api_client' = toggle_beta(api_client)
    /\ Called("toggle_beta", None, None)
    /\ UNCHANGED <<chat_handler, engine, cli, stream>>

\* /prefix
TogglePrefix ==
    /\ calls < MaxCalls
    /\ IF ~api_client.beta_mode
       THEN /\ Called("toggle_prefix", None, FALSE)
            /\ UNCHANGED chat_handler
       ELSE /\ chat_handler' = [chat_handler EXCEPT !.prefix_mode = ~@]
            /\ Called("toggle_prefix", None, TRUE)
    /\ UNCHANGED <<api_client, engine, cli, stream>>

PrepareChatRequest ==
    /\ calls < MaxCalls
    /\ LET r == prepare_chat_request(chat_handler)
       IN  /\ chat_handler' = r.ch
           /\ Called("prepare_chat_request", None, r.ret)
    /\ UNCHANGED <<api_client, engine, cli, stream>>

InitCommon ==
    /\ api_client = APIClientInit
    /\ engine = EngineIdle
    /\ cli = CliInit
    /\ stream = StreamIdle
    /\ result = [op |-> "init", arg |-> None, ret |-> None]
    /\ calls = 0

(***************************************************************************)
(* SpecAppend: add_message calls only, on a fresh or an already long       *)
(* history, with or without a system message set first, and with or        *)
(* without an add_message("system", ..) made before the session ran.       *)
(***************************************************************************)
InitAppend ==
    /\ \E n \in PrefillLengths, with_system \in BOOLEAN, early_system \in BOOLEAN :
           LET set == IF with_system
                      THEN set_system_message(ChatHandlerInit, SYSTEM_PROMPT)
                      ELSE ChatHandlerInit
               started == IF early_system THEN add_message(set, "system", "hello")
                          ELSE set
           IN  /\ Len(started.messages) + n <= MAX_HISTORY_LENGTH
               /\ chat_handler = Prefill(started, n)
    /\ InitCommon

NextAppend == AddMessage

SpecAppend == InitAppend /\ [][NextAppend]_vars

(***************************************************************************)
(* SpecHistory: every operation that touches the message list.             *)
(***************************************************************************)
InitHistory ==
    /\ chat_handler = ChatHandlerInit
    /\ InitCommon

NextHistory ==
    \/ SetSystemMessage
    \/ AddMessage
    \/ ClearHistory
    \/ ToggleJsonMode
    \/ ToggleBeta
    \/ TogglePrefix
    \/ PrepareChatRequest

SpecHistory == InitHistory /\ [][NextHistory]_vars

(***************************************************************************)
(* SpecSession: the model, the sampling parameters, the tools, the stop    *)
(* sequences and the flags, and the request composed from them.            *)
(***************************************************************************)
ModelInputs ==
    {"deepseek/deepseek-chat", "deepseek/deepseek-reasoner", "gpt-4o",
     "ollama/llama3.2", "deepseek-reasoner", "no-such-model"}
TemperatureInputs == {"0.7", "2", "2.1", "-0.1", "nan", "creative", "Coding", "warm"}
PenaltyInputs == {-21, -20, 20, 21}
TopPInputs == {-1, 0, 10, 11}
FunctionInputs == {"get_weather"}
StopInputs == {"END"}

\* /model X
SwitchModel ==
    \E model \in ModelInputs :
        /\ calls < MaxCalls
        /\ LET r == switch_model(chat_handler, model)
           IN  /\ chat_handler' = r.ch
               /\ api_client' = IF r.ret THEN set_model(api_client, model)
                                ELSE api_client
               /\ Called("switch_model", model, r.ret)
        /\ UNCHANGED <<engine, cli, stream>>

\* /temp X
SetTemperature ==
    \E temp_str \in TemperatureInputs :
        /\ calls < MaxCalls
        /\ LET r == set_temperature(chat_handler, temp_str)
           IN  /\ chat_handler' = r.ch
               /\ Called("set_temperature", temp_str, r.ret)
        /\ UNCHANGED <<api_client, engine, cli, stream>>

\* /freq X
SetFrequencyPenalty ==
    \E penalty \in PenaltyInputs :
        /\ calls < MaxCalls
        /\ LET r == set_frequency_penalty(chat_handler, penalty)
           IN  /\ chat_handler' = r.ch
               /\ Called("set_frequency_penalty", penalty, r.ret)
        /\ UNCHANGED <<api_client, engine, cli, stream>>

\* /pres X
SetPresencePenalty ==
    \E penalty \in PenaltyInputs :
        /\ calls < MaxCalls
        /\ LET r == set_presence_penalty(chat_handler, penalty)
           IN  /\ chat_handler' = r.ch
               /\ Called("set_presence_penalty", penalty, r.ret)
        /\ UNCHANGED <<api_client, engine, cli, stream>>

\* /top_p X
SetTopP ==
    \E top_p \in TopPInputs :
        /\ calls < MaxCalls
        /\ LET r == set_top_p(chat_handler, top_p)
           IN  /\ chat_handler' = r.ch
               /\ Called("set_top_p", top_p, r.ret)
        /\ UNCHANGED <<api_client, engine, cli, stream>>

\* /function {}
AddFunction ==
    \E function \in FunctionInputs :
        /\ calls < MaxCalls
        /\ LET r == add_function(chat_handler, function)
           IN  /\ chat_handler' = r.ch
               /\ Called("add_function", function, r.ret)
        /\ UNCHANGED <<api_client, engine, cli, stream>>

\* /clearfuncs
ClearFunctions ==
    /\ calls < MaxCalls
    /\ chat_handler' = clear_functions(chat_handler)
    /\ Called("clear_functions", None, None)
    /\ UNCHANGED <<api_client, engine, cli, stream>>

\* /stop X
AddStopSequence ==
    \E sequence \in StopInputs :
        /\ calls < MaxCalls
        /\ LET r == add_stop_sequence(chat_handler, sequence)
           IN  /\ chat_handler' = r.ch
               /\ Called("add_stop_sequence", sequence, r.ret)
        /\ UNCHANGED <<api_client, engine, cli, stream>>

\* /clearstop
ClearStopSequences ==
    /\ calls < MaxCalls
    /\ chat_handler' = clear_stop_sequences(chat_handler)
    /\ Called("clear_stop_sequences", None, None)
    /\ UNCHANGED <<api_client, engine, cli, stream>>

\* DeepSeekCLI.run sets the system message before it reads the first command
InitSession ==
    /\ chat_handler = set_system_message(ChatHandlerInit, SYSTEM_PROMPT)
    /\ InitCommon

NextSession ==
    \/ SwitchModel
    \/ SetTemperature
    \/ SetFrequencyPenalty
    \/ SetPresencePenalty
    \/ SetTopP
    \/ AddFunction
    \/ ClearFunctions
    \/ AddStopSequence
    \/ ClearStopSequences
    \/ ToggleJsonMode
    \/ ToggleStream
    \/ PrepareChatRequest

SpecSession == InitSession /\ [][NextSession]_vars

(***************************************************************************)
(* SpecLegacy: the commands and turns of the single-file client.           *)
(***************************************************************************)
CliModelInputs ==
    {"deepseek-chat", "deepseek-coder", "deepseek-reasoner", "deepseek/deepseek-chat"}
CliTemperatureInputs == {"0.7", "2.1"}
CliFunctionInputs == {"{get_weather}", "{not json"}
CliTexts == {"hello", FimText}

CliCalled(op, arg, ret) ==
    /\ calls < MaxCliCalls
    /\ Called(op, arg, ret)
    /\ UNCHANGED <<chat_handler, api_client, engine, stream>>

CliToggleBeta ==
    /\ cli' = cli_toggle_beta(cli)
    /\ CliCalled("toggle_beta", None, None)

CliTogglePrefixMode ==
    /\ cli' = cli_toggle_prefix_mode(cli)
    /\ CliCalled("toggle_prefix_mode", None, None)

CliToggleFimMode ==
    /\ cli' = cli_toggle_fim_mode(cli)
    /\ CliCalled("toggle_fim_mode", None, None)

CliToggleJsonMode ==
    /\ cli' = cli_toggle_json_mode(cli)
    /\ CliCalled("toggle_json_mode", None, None)

CliToggleStream ==
    /\ cli' = cli_toggle_stream(cli)
    /\ CliCalled("toggle_stream", None, None)

CliSwitchModel ==
    \E model \in CliModelInputs :
        /\ cli' = cli_switch_model(cli, model)
        /\ CliCalled("switch_model", model, None)

CliSetTemperature ==
    \E temp_str \in CliTemperatureInputs :
        /\ cli' = cli_set_temperature(cli, temp_str)
        /\ CliCalled("set_temperature", temp_str, None)

CliAddFunction ==
    \E function_json \in CliFunctionInputs :
        /\ cli' = cli_add_function(cli, function_json)
        /\ CliCalled("add_function", function_json, None)

CliClear ==
    /\ cli' = cli_clear(cli)
    /\ CliCalled("clear", None, None)

CliTurn ==
    \E user_input \in CliTexts, reply \in CliReplies(cli) :
        LET r == cli_turn(cli, user_input, reply)
        IN  /\ cli' = r.cli
            /\ CliCalled("turn", <<user_input, reply>>,
                         [kwargs |-> r.kwargs, response |-> r.response])

\* run() sets the system message before it reads the first line
InitLegacy ==
    /\ chat_handler = ChatHandlerInit
    /\ api_client = APIClientInit
    /\ engine = EngineIdle
    /\ stream = StreamIdle
    /\ cli = cli_set_system_message(CliInit, SYSTEM_PROMPT)
    /\ result = [op |-> "init", arg |-> None, ret |-> None]
    /\ calls = 0

NextLegacy ==
    \/ CliToggleBeta
    \/ CliTogglePrefixMode
    \/ CliToggleFimMode
    \/ CliToggleJsonMode
    \/ CliToggleStream
    \/ CliSwitchModel
    \/ CliSetTemperature
    \/ CliAddFunction
    \/ CliClear
    \/ CliTurn

SpecLegacy == InitLegacy /\ [][NextLegacy]_vars

(***************************************************************************)
(* SpecRetry: one invocation of ErrorHandler.retry_with_backoff, for every *)
(* sequence of outcomes of the wrapped request and of answers typed at the *)
(* prompts.                                                                *)
(***************************************************************************)
Errors ==
    [rate_limit : {TRUE}, status_code : {"429"}, retry_after : {None, "5", "soon"}]
      \cup [rate_limit : {FALSE},
            status_code : {"429", "401", "500", "503", "502", "400", "418", None},
            retry_after : {None}]
Answers == {"y", "Y", "n"}

error_handler == ErrorHandlerInit

EngineStart ==
    /\ engine.pc = "idle"
    /\ \E has_client \in BOOLEAN :
           engine' = EngineStarted(error_handler, has_client)
    /\ UNCHANGED <<chat_handler, api_client, cli, stream, result, calls>>

EngineAttemptReturns ==
    /\ engine.pc = "call"
    /\ engine.attempts < MaxAttempts
    /\ engine' = EngineReturned(engine)
    /\ UNCHANGED <<chat_handler, api_client, cli, stream, result, calls>>

EngineAttemptRaises ==
    /\ engine.pc = "call"
    /\ engine.attempts < MaxAttempts
    /\ \E e \in Errors : engine' = EngineFailed(engine, e)
    /\ UNCHANGED <<chat_handler, api_client, cli, stream, result, calls>>

EngineHandle ==
    /\ engine.pc = "handle"
    /\ \E answer \in Answers :
           engine' = EngineHandled(error_handler, engine, answer)
    /\ UNCHANGED <<chat_handler, api_client, cli, stream, result, calls>>

InitRetry ==
    /\ chat_handler = ChatHandlerInit
    /\ InitCommon

NextRetry ==
    \/ EngineStart
    \/ EngineAttemptReturns
    \/ EngineAttemptRaises
    \/ EngineHandle

SpecRetry == InitRetry /\ [][NextRetry]_vars

(***************************************************************************)
(* SpecStream: one invocation of ChatHandler.stream_response on an empty   *)
(* history, for every response made of up to MaxChunks short chunks, of    *)
(* up to MaxChunks long ones or of up to MaxChunks long ones with long     *)
(* sentences, every timing of the chunks and an error at any point of the  *)
(* iteration.                                                              *)
(***************************************************************************)
Chunk(content) == [null |-> FALSE, content |-> content]
NullChunk == [null |-> TRUE, content |-> <<>>]

HELLO == <<"H", "e", "l", "l", "o", ",", " ">>
WORLD == <<"w", "o", "r", "l", "d", ".">>
BYE == <<" ", "B", "y", "e">>
\* 32 characters that end in a pause marker and hold no sentence end
CLAUSE == [i \in 1..32 |-> IF i = 31 THEN "," ELSE IF i = 32 THEN " " ELSE "a"]
\* n characters of sentences of SentenceLength characters, a space after
\* each full stop
Prose(n) ==
    [i \in 1..n |-> IF i % SentenceLength = 0 THEN "."
                    ELSE IF i % SentenceLength = 1 THEN " " ELSE "a"]

ShortChunks ==
    {Chunk(HELLO), Chunk(WORLD), Chunk(BYE), Chunk(CLAUSE), Chunk(<<>>), NullChunk}
\* n characters of sentences of ParagraphLength characters, nothing after
\* the full stops
Paragraphs(n) == [i \in 1..n |-> IF i % ParagraphLength = 0 THEN "." ELSE "a"]

LongChunks == {Chunk(Prose(LongChunk)), Chunk(Prose(MidChunk))}
ParagraphChunks == {Chunk(Paragraphs(LongChunk))}

SeqsUpTo(S, n) == UNION {[1..k -> S] : k \in 0..n}

Responses ==
    SeqsUpTo(ShortChunks, MaxChunks) \cup SeqsUpTo(LongChunks, MaxChunks)
      \cup SeqsUpTo(ParagraphChunks, MaxChunks)

\* time between two chunks: none, 0.1 s, 0.2 s
Gaps == {0, 1, 2}

StreamStart ==
    /\ stream.pc = "idle"
    /\ \E response \in Responses : stream' = StreamStarted(response)
    /\ UNCHANGED <<chat_handler, api_client, engine, cli, result, calls>>

StreamChunk ==
    /\ stream.pc = "loop"
    /\ stream.next <= Len(stream.response)
    /\ \E gap \in Gaps :
           stream' = StreamChunkHandled(chat_handler.stream_config, stream, gap)
    /\ UNCHANGED <<chat_handler, api_client, engine, cli, result, calls>>

StreamComplete ==
    /\ stream.pc = "loop"
    /\ stream.next > Len(stream.response)
    /\ LET r == StreamCompleted(chat_handler, stream)
       IN  /\ chat_handler' = r.ch
           /\ stream' = r.st
    /\ UNCHANGED <<api_client, engine, cli, result, calls>>

StreamRaise ==
    /\ stream.pc = "loop"
    /\ stream' = StreamFailed(stream)
    /\ UNCHANGED <<chat_handler, api_client, engine, cli, result, calls>>

InitStream ==
    /\ chat_handler = ChatHandlerInit
    /\ InitCommon

NextStream ==
    \/ StreamStart
    \/ StreamChunk
    \/ StreamComplete
    \/ StreamRaise

SpecStream == InitStream /\ [][NextStream]_vars

(***************************************************************************)
(* SpecDisplay: stream_response on one chunk that is longer than the       *)
(* visible budget, for budgets set through configure_stream_settings and   *)
(* texts with a sentence end at, next to or away from the places the final *)
(* display looks at.                                                       *)
(***************************************************************************)
Budgets == {8000, 2201, 2200, 1000}
TextLengths == {8001, 10000}
\* where the head of the final display may find a sentence end (0: nowhere)
HeadStops == {0, 1801, 1802, 1999, 2000}
\* the same for the tail, counted from the first character of the tail
TailStops == {0, 1, 200, 201}

\* the first character of full_response[-(budget - 2200):]
TailStart(length, budget) ==
    IF budget > 2200 THEN Max(length - (budget - 2200), 0) + 1
    ELSE 2200 - budget + 1

LongText(length, budget, head_stop, tail_stop, space_after) ==
    LET tail_at == TailStart(length, budget) + tail_stop - 1
    IN  [i \in 1..length |->
            IF i = head_stop \/ (tail_stop > 0 /\ i = tail_at) THEN "."
            ELSE IF space_after /\ tail_stop > 0 /\ i = tail_at + 1 THEN " "
            ELSE "a"]

InitDisplay ==
    /\ \E budget \in Budgets, length \in TextLengths, head_stop \in HeadStops,
          tail_stop \in TailStops, space_after \in BOOLEAN :
           /\ chat_handler =
                  configure_stream_settings(
                      ChatHandlerInit,
                      [key \in {"max_visible_chars"} |-> budget]).ch
           /\ stream = StreamStarted(<<Chunk(LongText(length, budget, head_stop,
                                                      tail_stop, space_after))>>)
    /\ api_client = APIClientInit
    /\ engine = EngineIdle
    /\ cli = CliInit
    /\ result = [op |-> "init", arg |-> None, ret |-> None]
    /\ calls = 0

NextDisplay ==
    \/ StreamChunk
    \/ StreamComplete

SpecDisplay == InitDisplay /\ [][NextDisplay]_vars

(***************************************************************************)
(* SpecCompletion: turns of DeepSeekCLI.get_completion, streaming or not,  *)
(* for every outcome of each attempt (the completion call raises, the      *)
(* iteration of the stream raises, a response arrives) and every answer    *)
(* typed at the prompts of the error handler.                              *)
(***************************************************************************)
UserInputs == {HELLO}
CompletionResponses ==
    {[content |-> WORLD, chunks |-> <<Chunk(WORLD), NullChunk, Chunk(BYE)>>],
     NoResponse}
CompletionErrors ==
    {e \in Errors : /\ e.status_code \in {"429", "401", "500", "400"}
                    /\ e.retry_after \in {None, "5"}}
\* what a stream has yielded when its iteration raises
PartialResponses == {NoResponse, [content |-> <<>>, chunks |-> <<Chunk(WORLD)>>]}
Outcomes ==
    [raises : {"create"}, error : CompletionErrors, response : {NoResponse}]
      \cup [raises : {"stream"}, error : CompletionErrors,
            response : PartialResponses]
      \cup [raises : {"no"}, error : {NoException},
            response : CompletionResponses]

\* get_completion up to the call of retry_with_backoff
GetCompletionStart ==
    /\ engine.pc = "idle"
    /\ calls < MaxCalls
    /\ \E user_input \in UserInputs :
           LET added == add_message(chat_handler, "user", user_input)
               prepared == prepare_chat_request(added)
           IN  /\ chat_handler' = prepared.ch
               /\ result' = [op |-> "prepare_chat_request", arg |-> NoException,
                             ret |-> user_input, printed |-> <<>>]
    /\ engine' = EngineStarted(error_handler, TRUE)
    /\ calls' = calls + 1
    /\ UNCHANGED <<api_client, cli, stream>>

\* one func() of the retry loop; kwargs holds the history by reference and
\* the settings as they were prepared, and none of them changes in the loop
GetCompletionAttempt ==
    /\ engine.pc = "call"
    /\ engine.attempts < MaxAttempts
    /\ \E outcome \in Outcomes :
           LET kwargs == [k \in KwargsKeys(chat_handler) |->
                             KwargsValue(chat_handler, k)]
               r == make_request(chat_handler, api_client, kwargs, "", outcome)
           IN  /\ api_client' = r.api
               /\ engine' = IF r.raised THEN EngineFailed(engine, r.error)
                            ELSE EngineReturned(engine)
               /\ result' = [op |-> "make_request", arg |-> r.error,
                             ret |-> r.ret, printed |-> r.printed]
    /\ UNCHANGED <<chat_handler, cli, stream, calls>>

\* get_completion after retry_with_backoff: the response goes to the
\* history when it is truthy; an exception is printed and None returned
\* (ret is empty then, and arg holds the exception)
GetCompletionEnd ==
    /\ engine.pc \in {"returned", "raised"}
    /\ result.op = "make_request"
    /\ chat_handler' =
           IF engine.pc = "returned" /\ result.ret # <<>>
           THEN add_message(chat_handler, "assistant", result.ret)
           ELSE chat_handler
    /\ result' = [op |-> "get_completion",
                  arg |-> IF engine.pc = "raised" THEN engine.raised
                          ELSE NoException,
                  ret |-> IF engine.pc = "returned" THEN result.ret ELSE <<>>,
                  printed |-> result.printed]
    /\ engine' = EngineIdle
    /\ UNCHANGED <<api_client, cli, stream, calls>>

InitCompletion ==
    /\ \E streaming \in BOOLEAN :
           chat_handler = IF streaming THEN ChatHandlerInit
                          ELSE toggle_stream(ChatHandlerInit)
    /\ api_client = APIClientInit
    /\ engine = EngineIdle
    /\ cli = CliInit
    /\ stream = StreamIdle
    /\ result = [op |-> "start", arg |-> NoException, ret |-> <<>>,
                 printed |-> <<>>]
    /\ calls = 0

NextCompletion ==
    \/ GetCompletionStart
    \/ GetCompletionAttempt
    \/ EngineHandle
    \/ GetCompletionEnd

SpecCompletion == InitCompletion /\ [][NextCompletion]_vars

(***************************************************************************)
(* SpecLimits: /function, /clearfuncs, /stop and /clearstop on a session   *)
(* whose lists are empty, full or up to NearCap entries short of full.     *)
(***************************************************************************)
\* a session after n accepted /function commands and k accepted /stop ones
Registered(ch, n, k) ==
    [ch EXCEPT !.functions = [i \in 1..n |-> "lookup"],
               !.stop_sequences = [i \in 1..k |-> "###"]]

InitLimits ==
    /\ \E n \in {0} \cup ((MAX_FUNCTIONS - NearCap)..MAX_FUNCTIONS),
          k \in {0} \cup ((MAX_STOP_SEQUENCES - NearCap)..MAX_STOP_SEQUENCES) :
           chat_handler =
               Registered(set_system_message(ChatHandlerInit, SYSTEM_PROMPT), n, k)
    /\ InitCommon

NextLimits ==
    \/ AddFunction
    \/ ClearFunctions
    \/ AddStopSequence
    \/ ClearStopSequences

SpecLimits == InitLimits /\ [][NextLimits]_vars

(***************************************************************************)
(* SpecClear: /clear in both clients, among the commands and turns that    *)
(* give the session something to lose.                                     *)
(***************************************************************************)
NextClear ==
    \/ SetSystemMessage
    \/ AddMessage
    \/ ToggleJsonMode
    \/ TogglePrefix
    \/ ClearHistory
    \/ CliToggleJsonMode
    \/ CliSwitchModel
    \/ CliSetTemperature
    \/ CliAddFunction
    \/ CliTurn
    \/ CliClear

SpecClear == InitHistory /\ [][NextClear]_vars

(***************************************************************************)
(* Claims about the message history.                                       *)
(***************************************************************************)
HeadIsSystem(ch) == ch.messages # <<>> /\ ch.messages[1].role = "system"

\* C1: after every add_message call the history holds at most
\* MAX_HISTORY_LENGTH messages, and a system message at position 0 before the
\* call is the same message at position 0 after it, trimmed or not.
C1_HistoryCapped ==
    /\ [](Len(chat_handler.messages) <= MAX_HISTORY_LENGTH)
    /\ [][HeadIsSystem(chat_handler) =>
             /\ HeadIsSystem(chat_handler')
             /\ chat_handler'.messages[1] = chat_handler.messages[1]]_vars

\* a call that trimmed: the history is at the cap, the system message leads it
\* and the oldest message of the session ("1") is gone
C1_Witness ==
    /\ result.op = "add_message"
    /\ Len(chat_handler.messages) = MAX_HISTORY_LENGTH
    /\ chat_handler.messages[1] = Message("system", SYSTEM_PROMPT)
    /\ chat_handler.messages[2].content # "1"
    /\ chat_handler.messages[MAX_HISTORY_LENGTH].content \in Texts

\* C2: at most one message has role system, and it is at position 0.
C2_SystemSingleton ==
    \A i \in 1..Len(chat_handler.messages) :
        chat_handler.messages[i].role = "system" => i = 1

\* C7: composing a request with prefix_mode on and a user message last leaves
\* the stored history as it was.
C7_PrefixNotPersisted ==
    [][(/\ result'.op = "prepare_chat_request"
        /\ chat_handler.prefix_mode
        /\ chat_handler.messages # <<>>
        /\ chat_handler.messages[Len(chat_handler.messages)].role = "user")
       => chat_handler'.messages = chat_handler.messages]_vars

(***************************************************************************)
(* Claims about the session parameters and the composed request.           *)
(***************************************************************************)
\* C3: switch_model with an identifier that is no key of MODEL_CONFIGS returns
\* False and leaves model and max_tokens (and the client's model) as they were.
C3_UnknownModelRejected ==
    [][(result'.op = "switch_model" /\ result'.arg \notin CatalogKeys)
       => /\ result'.ret = FALSE
          /\ chat_handler'.model = chat_handler.model
          /\ chat_handler'.max_tokens = chat_handler.max_tokens
          /\ api_client' = api_client]_vars

\* an unknown identifier was refused after a switch to a model with another
\* token ceiling had succeeded
C3_Witness ==
    /\ result.op = "switch_model"
    /\ result.arg = "no-such-model"
    /\ result.ret = FALSE
    /\ chat_handler.model = "gpt-4o"
    /\ chat_handler.max_tokens = 16384

\* the values the claim calls outside the domain
TemperatureOutside == {"2.1", "-0.1", "nan", "warm"}
PenaltyOutside(p) == p < -20 \/ p > 20
TopPOutside(p) == p < 0 \/ p > 10

RejectedSetterCall(r) ==
    \/ r.op = "set_temperature" /\ r.arg \in TemperatureOutside
    \/ r.op \in {"set_frequency_penalty", "set_presence_penalty"}
         /\ PenaltyOutside(r.arg)
    \/ r.op = "set_top_p" /\ TopPOutside(r.arg)

\* C4: a sampling setter called with a value outside its domain returns False
\* and leaves the whole session state as it was.
C4_InvalidSetterIsNoOp ==
    [][RejectedSetterCall(result')
       => /\ result'.ret = FALSE
          /\ chat_handler' = chat_handler
          /\ api_client' = api_client]_vars

\* an out-of-range temperature was refused while a value set earlier stands
C4_Witness ==
    /\ result.op = "set_temperature"
    /\ result.arg = "2.1"
    /\ result.ret = FALSE
    /\ chat_handler.temperature = 7
    /\ chat_handler.top_p = 0

SamplingFields == {"temperature", "top_p", "frequency_penalty", "presence_penalty"}

\* the catalog entry of the reasoner, the model without sampling parameters
ReasonerModel == "deepseek/deepseek-reasoner"

\* C5: a request composed while the active model is the reasoner carries no
\* sampling field.
C5_NoSamplingForReasoner ==
    (result.op = "prepare_chat_request" /\ chat_handler.model = ReasonerModel)
        => DOMAIN result.ret \cap SamplingFields = {}

\* C6: the request carries tools exactly when functions are registered and the
\* active model's catalog entry supports function calling.
C6_ToolsIffSupported ==
    (result.op = "prepare_chat_request" /\ chat_handler.model \in CatalogKeys)
        => (("tools" \in DOMAIN result.ret)
              <=> (/\ chat_handler.functions # <<>>
                   /\ MODEL_CONFIGS[chat_handler.model].supports_function_calling))

\* C8: the max_tokens of a composed request never exceeds the output limit of
\* the active model (it is the lesser of the configured value and that limit).
C8_MaxTokensWithinOutputLimit ==
    result.op = "turn"
        => result.ret.kwargs.max_tokens <= CliMaxOutput(cli, cli.model)

(***************************************************************************)
(* Claims about the retry engine.                                          *)
(***************************************************************************)
\* C9: one invocation of retry_with_backoff calls the wrapped request at most
\* max_retries times.
C9_AtMostMaxRetriesAttempts ==
    engine.pc # "idle" => engine.attempts <= error_handler.max_retries

AllRateLimited(en) ==
    \A i \in 1..Len(en.errors) : IsRateLimit(en.errors[i])

\* C10: when every attempt fails with a rate limit, the engine has ended with
\* the error once max_retries attempts have failed and been handled.
C10_RateLimitedEndsFatally ==
    (/\ engine.pc \notin {"idle", "handle"}
     /\ AllRateLimited(engine)
     /\ Len(engine.errors) = error_handler.max_retries)
        => engine.pc = "raised" /\ engine.attempts = error_handler.max_retries

\* the failure of attempt k has been through the except branch
Handled(k) ==
    /\ engine.pc # "idle"
    /\ k \in 1..Len(engine.errors)
    /\ (k < Len(engine.errors) \/ engine.pc # "handle")

RECURSIVE Total(_)
Total(w) == IF w = <<>> THEN 0 ELSE w[1] + Total(Tail(w))

\* min(initialDelay * 2^(k-1), maxDelay)
Backoff(k) ==
    Min(error_handler.retry_delay * 2 ^ (k - 1), error_handler.max_retry_delay)

NoHint(e) == IsRateLimit(e) /\ e.retry_after = None
Hint(e) == IsRateLimit(e) /\ e.retry_after # None /\ ParseInt(e.retry_after) >= 0
AuthFailure(e) == ~IsRateLimit(e) /\ e.status_code = "401"
ServerFailure(e) == ~IsRateLimit(e) /\ e.status_code \in {"500", "502", "503"}
ClientFailure(e) == ~IsRateLimit(e) /\ ~AuthFailure(e) /\ ~ServerFailure(e)

\* C11: after a rate-limit failure of attempt k that carries no retry-after
\* hint, the time slept before attempt k+1 is min(1 * 2^(k-1), 16) in total.
C11_SleepIsBackoffDelay ==
    \A k \in 1..MaxAttempts :
        (Handled(k) /\ NoHint(engine.errors[k]))
            => Total(engine.waits[k]) = Backoff(k)

\* C12: after a rate-limit failure the engine sleeps once: the advertised
\* retry-after interval when the failure carries one, and otherwise the
\* current (doubled) backoff delay.
C12_SleepsHintOrBackoff ==
    \A k \in 1..MaxAttempts :
        /\ (Handled(k) /\ Hint(engine.errors[k]))
               => engine.waits[k] = <<ParseInt(engine.errors[k].retry_after)>>
        /\ (Handled(k) /\ NoHint(engine.errors[k]))
               => engine.waits[k] = <<Backoff(k)>>

\* C13: a failure that is not a rate limit, a 401 or a 5xx ends the engine:
\* no attempt follows it, nothing is asked, and the error that the attempt
\* raised is the one that leaves the engine; when it is the first failure
\* exactly one attempt has been made.
C13_ClientFailureIsFatal ==
    \A k \in 1..MaxAttempts :
        (Handled(k) /\ ClientFailure(engine.errors[k]))
            => /\ engine.pc = "raised"
               /\ Len(engine.errors) = k
               /\ engine.attempts = k
               /\ engine.waits[k] = <<>>
               /\ engine.raised = engine.errors[k]

C13_Witness ==
    /\ engine.pc = "raised"
    /\ engine.attempts = 1
    /\ engine.errors[1].status_code = "400"
    /\ engine.raised = engine.errors[1]

\* C14: a 401 failure is followed by the offer to replace the credential; when
\* the user accepts, the request is attempted again, and when the user
\* declines, the engine ends with no further attempt.
C14_AuthFailureOffersNewKey ==
    \A k \in 1..MaxAttempts :
        (Handled(k) /\ AuthFailure(engine.errors[k]) /\ engine.has_client)
            => /\ engine.answers[k] # None
               /\ IF Lower(engine.answers[k]) = "y"
                  THEN engine.attempts > k \/ engine.pc = "call"
                  ELSE engine.pc = "raised" /\ engine.attempts = k

\* C15: in one invocation of the engine at most one 401 failure is followed
\* by another attempt.
Retried401 ==
    {k \in 1..Len(engine.errors) :
        AuthFailure(engine.errors[k])
            /\ (engine.attempts > k \/ (Handled(k) /\ engine.pc = "call"))}

C16_ServerFailureAsksToRetry ==
    \A k \in 1..MaxAttempts :
        (Handled(k) /\ ServerFailure(engine.errors[k]))
            => /\ engine.answers[k] # None
               /\ ((Lower(engine.answers[k]) = "y")
                     <=> (engine.attempts > k \/ engine.pc = "call"))


(***************************************************************************)
(* Claims about the streaming controller.                                  *)
(***************************************************************************)
RECURSIVE Concatenation(_)
Concatenation(chunks) ==
    IF chunks = <<>>
    THEN <<>>
    ELSE (IF Head(chunks).null THEN <<>> ELSE Head(chunks).content)
             \o Concatenation(Tail(chunks))

StreamSucceeded == stream.pc = "returned" /\ ~stream.failed

\* C18: when the response ends without an error, the value returned is the
\* concatenation of all fragments in order, and the one assistant message
\* added to the history holds exactly that text, however many refreshes were
\* made and whether or not the text shown was truncated.
C18_FoldedTextIsConcatenation ==
    StreamSucceeded =>
        LET text == Concatenation(stream.response)
        IN  /\ stream.ret = text
            /\ chat_handler.messages =
                   IF text = <<>> THEN <<>> ELSE <<Message("assistant", text)>>

C18_Witness ==
    /\ StreamSucceeded
    /\ Len(stream.ret) = 10000
    /\ chat_handler.stream_config.max_visible_chars = 8000
    /\ Len(stream.display) < Len(stream.ret)
    /\ Len(stream.refreshes) = 3
    /\ chat_handler.messages[1].content = stream.ret

HelloWorldBye == <<Chunk(HELLO), Chunk(WORLD), Chunk(BYE)>>

RefreshAtOrAfterWorld == \E i \in 1..Len(stream.refreshes) : stream.refreshes[i].chunk >= 2

\* C19 (as stated): after "Hello, ", "world.", " Bye" have been fed with the
\* default thresholds, a refresh has been made at "world." or after it,
\* whatever the timing of the fragments.
C19_FlushAfterSentenceEnd ==
    (StreamSucceeded /\ stream.response = HelloWorldBye) => RefreshAtOrAfterWorld

\* C19 (amended): a refresh at "world." or after it is made exactly when 0.2 s
\* or more have passed between the start of the call and the arrival of
\* " Bye"; in every case the final bubble shows the whole text.
C19_FlushOnlyWhenTimeThresholdPassed ==
    (StreamSucceeded /\ stream.response = HelloWorldBye) =>
        /\ RefreshAtOrAfterWorld
               <=> (stream.arrivals[1] + stream.arrivals[2] + stream.arrivals[3]
                        >= chat_handler.stream_config.time_threshold)
        /\ \A i \in 1..Len(stream.refreshes) :
               stream.refreshes[i].reason = "time_threshold"
        /\ stream.complete
        /\ stream.display = HELLO \o WORLD \o BYE

C19_Witness ==
    /\ StreamSucceeded
    /\ stream.response = HelloWorldBye
    /\ stream.arrivals = <<0, 1, 0>>
    /\ stream.refreshes = <<>>
    /\ stream.display = HELLO \o WORLD \o BYE

\* the text kept is longer than the visible budget and its final display has
\* been made
FinalDisplayOfLongText ==
    /\ StreamSucceeded
    /\ Len(stream.full_response) > chat_handler.stream_config.max_visible_chars

\* the first 2000 characters, cut back to the last sentence end among the
\* last 199 of them
ExpectedHead(text) ==
    LET n == Min(2000, Len(text))
        stops == {p \in (Max(n - 200, 0) + 2)..n : text[p] \in SENTENCE_ENDS}
    IN  IF stops = {}
        THEN SubSeq(text, 1, n)
        ELSE SubSeq(text, 1, CHOOSE p \in stops : \A q \in stops : q <= p)

\* the text from position first on, cut forward past the first sentence end
\* among its first 200 characters and the whitespace after it
SentenceAlignedFrom(text, first) ==
    LET stops == {p \in first..Min(first + 199, Len(text)) :
                     text[p] \in SENTENCE_ENDS}
    IN  IF stops = {}
        THEN SubSeq(text, first, Len(text))
        ELSE LET stop == CHOOSE p \in stops : \A q \in stops : p <= q
                 rest == {p \in (stop + 1)..Len(text) : text[p] \notin Whitespace}
             IN  IF rest = {}
                 THEN <<>>
                 ELSE SubSeq(text, CHOOSE p \in rest : \A q \in rest : p <= q,
                             Len(text))

\* C20 (as stated): the final display of a text longer than the visible
\* budget is head + marker + tail, the head being the first 2000 characters
\* cut back to a sentence end and the tail the last (budget - head length -
\* marker length) characters, then aligned to a sentence.
C20_TailFillsBudget ==
    FinalDisplayOfLongText =>
        LET text == stream.full_response
            budget == chat_handler.stream_config.max_visible_chars
            head == ExpectedHead(text)
            tail_length == budget - Len(head) - Len(OMISSION_MARKER)
        IN  stream.display =
                head \o OMISSION_MARKER
                     \o SentenceAlignedFrom(text, Len(text) - tail_length + 1)

\* C20 (amended): the final display is head + marker + tail, the head as
\* stated and the tail the last (budget - 2200) characters, then aligned to
\* a sentence; for a budget of 2200 or less the tail is the text from
\* character 2200 - budget on.
C20_TailIsBudgetLess2200 ==
    FinalDisplayOfLongText =>
        LET text == stream.full_response
            budget == chat_handler.stream_config.max_visible_chars
            first == IF budget > 2200
                     THEN Max(Len(text) - (budget - 2200), 0) + 1
                     ELSE 2200 - budget + 1
        IN  stream.display =
                ExpectedHead(text) \o OMISSION_MARKER
                    \o SentenceAlignedFrom(text, first)

C20_Witness ==
    /\ FinalDisplayOfLongText
    /\ Len(stream.full_response) = 10000
    /\ chat_handler.stream_config.max_visible_chars = 8000
    /\ stream.full_response[1999] = "."
    /\ stream.full_response[4400] = "."
    /\ stream.full_response[4401] = " "
    /\ Len(stream.display) = 1999 + 48 + 5600 - 1

\* the k-th failure of the turn came out of the completion call itself
FromCompletionCall(k) == "cause" \in DOMAIN engine.errors[k]

\* C17: in get_completion, a completion call that fails with a rate-limit
\* (429) error is classified as rate-limited (the error handler sleeps and
\* asks nothing) and the request is attempted again.
C17_RateLimitedCallIsRetried ==
    \A k \in 1..MaxAttempts :
        (/\ Handled(k)
         /\ FromCompletionCall(k)
         /\ IsRateLimit(engine.errors[k].cause))
            => /\ engine.waits[k] # <<>>
               /\ engine.answers[k] = None
               /\ (engine.attempts > k \/ engine.pc = "call")

StreamAborted == stream.pc = "returned" /\ stream.failed

\* the fragments handled before the iteration raised
ReceivedBeforeError == SubSeq(stream.response, 1, stream.next - 1)

\* C21: when the iteration of the response raises, stream_response returns
\* the concatenation of the fragments received before the error, and the
\* history gains an assistant message holding that text if and only if at
\* least one fragment was received.
C21_PartialTextReturnedAndFolded ==
    StreamAborted =>
        LET text == Concatenation(ReceivedBeforeError)
        IN  /\ stream.ret = text
            /\ chat_handler.messages =
                   IF text = <<>> THEN <<>> ELSE <<Message("assistant", text)>>

\* C22: in a streaming turn of get_completion, an error raised after some
\* fragments were received makes the turn return the text received so far.
C22_TurnReturnsPartialText ==
    (/\ result.op = "get_completion"
     /\ chat_handler.stream
     /\ result.arg # NoException
     /\ result.printed # <<>>)
        => result.ret = result.printed

(***************************************************************************)
(* Claims about the lists of tools and of stop sequences.                  *)
(***************************************************************************)
\* C23: whatever add_function and clear_functions calls are made, at most
\* MAX_FUNCTIONS (128) tools are registered, and an add_function call made
\* when 128 are registered returns False and leaves the list as it was.
C23_FunctionsCapped ==
    /\ [](Len(chat_handler.functions) <= MAX_FUNCTIONS)
    /\ [][(/\ result'.op = "add_function"
           /\ Len(chat_handler.functions) = MAX_FUNCTIONS)
          => /\ result'.ret = FALSE
             /\ chat_handler'.functions = chat_handler.functions]_vars

C23_Witness ==
    /\ result.op = "add_function"
    /\ result.ret = FALSE
    /\ Len(chat_handler.functions) = MAX_FUNCTIONS
    /\ \A i \in 1..MAX_FUNCTIONS : chat_handler.functions[i] = "lookup"

\* C24: whatever add_stop_sequence and clear_stop_sequences calls are made,
\* at most MAX_STOP_SEQUENCES (16) stop sequences are registered, and an
\* add_stop_sequence call made when 16 are registered returns False and
\* leaves the list as it was.
C24_StopSequencesCapped ==
    /\ [](Len(chat_handler.stop_sequences) <= MAX_STOP_SEQUENCES)
    /\ [][(/\ result'.op = "add_stop_sequence"
           /\ Len(chat_handler.stop_sequences) = MAX_STOP_SEQUENCES)
          => /\ result'.ret = FALSE
             /\ chat_handler'.stop_sequences = chat_handler.stop_sequences]_vars

C24_Witness ==
    /\ result.op = "add_stop_sequence"
    /\ result.ret = FALSE
    /\ Len(chat_handler.stop_sequences) = MAX_STOP_SEQUENCES
    /\ \A i \in 1..MAX_STOP_SEQUENCES : chat_handler.stop_sequences[i] = "###"

(***************************************************************************)
(* Claims about the modes and the frame of the session commands.           *)
(***************************************************************************)
\* C25: JSON mode is only ever on while the active model supports JSON
\* output, so whenever json_mode is set the request the client would compose
\* carries the JSON response directive (response_format).
C25_JsonModeCarriesDirective ==
    cli.json_mode => "response_format" \in DOMAIN CliKwargs(cli)

\* the history /clear leaves behind
ClearedHistory(messages) ==
    IF messages # <<>> /\ messages[1].role = "system" THEN <<messages[1]>>
    ELSE <<>>

\* C26: clear_history (and /clear of the single-file client) leaves the
\* history equal to the system message alone when one was at position 0 and
\* empty otherwise, sets the turn counter of the single-file client to 0,
\* and changes no other field of the session.
C26_ClearKeepsSessionFields ==
    [][/\ result'.op = "clear_history" =>
             /\ chat_handler'.messages = ClearedHistory(chat_handler.messages)
             /\ \A f \in DOMAIN chat_handler \ {"messages"} :
                    chat_handler'[f] = chat_handler[f]
             /\ cli' = cli
       /\ result'.op = "clear" =>
             /\ cli'.messages = ClearedHistory(cli.messages)
             /\ cli'.conversation_turn = 0
             /\ \A f \in DOMAIN cli \ {"messages", "conversation_turn"} :
                    cli'[f] = cli[f]
             /\ chat_handler' = chat_handler]_vars

\* a /clear as the third command of a session that is in JSON mode
C26_Witness ==
    /\ result.op = "clear_history"
    /\ chat_handler.json_mode
    /\ chat_handler.messages = <<Message("system", JSON_SYSTEM_PROMPT)>>
    /\ calls = 3

(***************************************************************************)
(* Claims about the turns.                                                 *)
(***************************************************************************)
\* C27: a turn that succeeds adds the user message and, directly after it,
\* exactly one assistant message, which holds the response, whatever the
\* model and whether streaming or not.
C27_OneAssistantMessagePerTurn ==
    [][(result'.op = "turn" /\ Truthy(result'.ret.response)) =>
           /\ Len(cli'.messages) = Len(cli.messages) + 2
           /\ cli'.messages[Len(cli'.messages)].role = "assistant"
           /\ cli'.messages[Len(cli'.messages)].content = result'.ret.response]_vars

(***************************************************************************)
(* Claims about the refreshes of the streaming controller.                 *)
(***************************************************************************)
\* the first of the five conditions that holds of the pending text and of
\* the time since the last refresh (in tenths of a second), None when none
\* does
FirstCondition(pending, elapsed) ==
    LET n == Len(pending)
    IN  IF n >= 50 THEN "buffer_size"
        ELSE IF n >= 20 /\ \E i \in 1..n : pending[i] \in SENTENCE_ENDS
        THEN "sentence_end"
        ELSE IF elapsed >= 2 /\ n >= 10 THEN "time_threshold"
        ELSE IF n >= 30 /\ \E i \in 1..n : i > n - 5 /\ pending[i] \in PAUSE_INDICATORS
        THEN "pause_indicator"
        ELSE IF n >= 100 THEN "force_refresh"
        ELSE None

\* C28: when a fragment arrives, the controller refreshes if and only if one
\* of the five conditions holds of the pending text (the fragment included)
\* and of the time since the last refresh, and the reason it reports is the
\* first of them, in their order, that holds.
C28_FlushIffFirstCondition ==
    [][(/\ stream.pc = "loop"
        /\ stream'.pc = "loop"
        /\ stream'.next = stream.next + 1
        /\ ~stream.response[stream.next].null)
       => LET pending == stream.buffer \o stream.response[stream.next].content
              elapsed == stream.elapsed + stream'.arrivals[Len(stream'.arrivals)]
              first == FirstCondition(pending, elapsed)
          IN  stream'.refreshes =
                  IF first = None THEN stream.refreshes
                  ELSE Append(stream.refreshes,
                              [reason |-> first, chunk |-> stream.next])]_vars

\* a clause of 32 characters is flushed for its pause marker; the next one,
\* 0.2 s later, for the time; "world." after it, not at all
C28_Witness ==
    /\ stream.pc = "loop"
    /\ stream.response = <<Chunk(CLAUSE), Chunk(CLAUSE), Chunk(WORLD)>>
    /\ stream.next = 4
    /\ stream.refreshes = <<[reason |-> "pause_indicator", chunk |-> 1],
                            [reason |-> "time_threshold", chunk |-> 2]>>
    /\ stream.buffer = WORLD

\* a refresh has just shown a text longer than the visible budget
FlushOfLongText ==
    /\ stream.pc = "loop"
    /\ stream.refreshes # <<>>
    /\ stream.refreshes[Len(stream.refreshes)].chunk = stream.next - 1
    /\ Len(stream.full_response) > chat_handler.stream_config.max_visible_chars

\* the text of the refresh, after the leading "..." and the blank line
ShownAfterElision == SubSeq(stream.display, Len(ELLIPSIS) + 1, Len(stream.display))

\* the first character of the trailing window
WindowStart ==
    Len(stream.full_response) - chat_handler.stream_config.max_visible_chars
        + chat_handler.stream_config.scroll_buffer + 1

\* C29 (as stated): when the accumulated text exceeds the visible budget,
\* the text shown on a refresh, after the leading elision, is a tail of the
\* accumulated text that begins right after a sentence end (whitespace
\* aside), whatever the text.
C29_FlushStartsAtSentence ==
    FlushOfLongText =>
        \E p \in 2..(Len(stream.full_response) + 1) :
            /\ ShownAfterElision =
                   SubSeq(stream.full_response, p, Len(stream.full_response))
            /\ \E q \in 1..(p - 1) :
                   /\ stream.full_response[q] \in SENTENCE_ENDS
                   /\ \A j \in (q + 1)..(p - 1) :
                          stream.full_response[j] \in Whitespace

\* C29 (amended): the text shown is the trailing window cut forward past
\* the first sentence end among its first 200 characters and the whitespace
\* after it; when these 200 characters hold no sentence end the window is
\* shown from its first character.
C29_FlushStartsAtSentenceWithin200 ==
    FlushOfLongText =>
        /\ SubSeq(stream.display, 1, Len(ELLIPSIS)) = ELLIPSIS
        /\ ShownAfterElision = SentenceAlignedFrom(stream.full_response, WindowStart)

\* 8200 characters in sentences of 1000: the window starts at character 1201
\* and is shown from there, the sentence end at 2000 being out of reach
C29_Witness ==
    /\ FlushOfLongText
    /\ Len(stream.full_response) = 2 * LongChunk
    /\ WindowStart = 2 * LongChunk - 7000 + 1
    /\ \A i \in WindowStart..(WindowStart + 199) : stream.full_response[i] = "a"
    /\ stream.full_response[WindowStart - 1] = "a"
    /\ Len(ShownAfterElision) = 7000

(***************************************************************************)
(* Claims about what a trim keeps.                                         *)
(***************************************************************************)
\* C30: when add_message trims, the history after the call is the system
\* message, if one was at position 0, followed by the most recent messages
\* in their order: what is discarded is a run of the oldest messages after
\* the system message, none of them with role system, and what is kept is
\* neither reordered nor duplicated.
C30_TrimDiscardsOldestNonSystem ==
    [][(/\ result'.op = "add_message"
        /\ Len(chat_handler.messages) + 1 > MAX_HISTORY_LENGTH)
       => LET all == Append(chat_handler.messages,
                            Message(result'.arg[1], result'.arg[2]))
              n == Len(all)
              kept_head == IF HeadIsSystem(chat_handler) THEN <<all[1]>> ELSE <<>>
              first == Len(kept_head) + 1
          IN  \E k \in (first + 1)..n :
                  /\ chat_handler'.messages = kept_head \o SubSeq(all, k, n)
                  /\ \A i \in first..(k - 1) : all[i].role # "system"]_vars

(***************************************************************************)
(* Claims about the frame of switch_model.                                 *)
(***************************************************************************)
\* the sampling settings, the tools and the JSON flag of a session record
SamplingAndTools(c) ==
    <<c.temperature, c.top_p, c.frequency_penalty, c.presence_penalty,
      c.functions, c.json_mode>>

\* C31: a successful switch_model changes only the active model and the
\* max-token ceiling; the stored temperature, top_p, frequency and presence
\* penalties, the tools and the JSON flag are what they were, so that values
\* set before a switch to a non-sampling model are in force after switching
\* back.
C31_SwitchModelKeepsSamplingAndTools ==
    [][(/\ result'.op = "switch_model"
        /\ result'.arg \in DOMAIN CliModelConfigs)
       => /\ cli'.model = result'.arg
          /\ SamplingAndTools(cli') = SamplingAndTools(cli)
          /\ cli' = [cli EXCEPT !.model = cli'.model,
                                !.max_tokens = cli'.max_tokens]]_vars

(***************************************************************************)
(* Claims about what composing a request leaves in the history.            *)
(***************************************************************************)
\* C32: composing a request with JSON mode enabled, any number of times,
\* leaves the content of the system message and of every other message that
\* was stored before the turn unchanged.
C32_ComposingKeepsStoredMessages ==
    [][(result'.op = "turn" /\ cli.json_mode)
       => /\ Len(cli'.messages) >= Len(cli.messages)
          /\ \A i \in 1..Len(cli.messages) : cli'.messages[i] = cli.messages[i]]_vars

(***************************************************************************)
(* SpecFold: ChatHandler.handle_response on a session whose history is     *)
(* empty or near the limit, with streaming on or off, between add_message  *)
(* calls.  A streamed response is consumed by stream_response, chunk by    *)
(* chunk; no other call is made while it runs.                             *)
(***************************************************************************)
\* response.choices[0] of a response that is not streamed
PlainResponses ==
    {[has_message |-> TRUE, tool_calls |-> FALSE, content |-> "reply"],
     [has_message |-> TRUE, tool_calls |-> FALSE, content |-> None],
     [has_message |-> TRUE, tool_calls |-> TRUE, content |-> None],
     [has_message |-> FALSE, tool_calls |-> FALSE, content |-> None]}

\* handle_response, the branch `not self.stream`
handle_response(ch, response) ==
    IF ~response.has_message THEN [ch |-> ch, ret |-> None]
    ELSE IF response.tool_calls THEN [ch |-> ch, ret |-> FUNCTION_CALL_JSON]
    ELSE IF response.content # None
    THEN [ch |-> [ch EXCEPT !.messages =
                      Append(@, Message("assistant", response.content))],
          ret |-> response.content]
    ELSE [ch |-> ch, ret |-> None]

FoldResponses == SeqsUpTo({Chunk(HELLO), Chunk(WORLD), NullChunk}, MaxChunks - 1)

FoldAddMessage == stream.pc # "loop" /\ calls < MaxFoldCalls /\ AddMessage

FoldToggleStream == stream.pc # "loop" /\ calls < MaxFoldCalls /\ ToggleStream

HandleResponse ==
    /\ calls < MaxFoldCalls
    /\ stream.pc # "loop"
    /\ ~chat_handler.stream
    /\ \E response \in PlainResponses :
           LET r == handle_response(chat_handler, response)
           IN  /\ chat_handler' = r.ch
               /\ Called("handle_response", response, r.ret)
    /\ UNCHANGED <<api_client, engine, cli, stream>>

\* handle_response, the branch that hands the response to stream_response
HandleStreamedResponse ==
    /\ calls < MaxFoldCalls
    /\ stream.pc # "loop"
    /\ chat_handler.stream
    /\ \E response \in FoldResponses : stream' = StreamStarted(response)
    /\ Called("handle_response", None, None)
    /\ UNCHANGED <<chat_handler, api_client, engine, cli>>

InitFold ==
    /\ \E n \in PrefillLengths :
           chat_handler =
               Prefill(set_system_message(ChatHandlerInit, SYSTEM_PROMPT), n)
    /\ InitCommon

NextFold ==
    \/ FoldAddMessage
    \/ FoldToggleStream
    \/ HandleResponse
    \/ HandleStreamedResponse
    \/ StreamChunk
    \/ StreamComplete
    \/ StreamRaise

SpecFold == InitFold /\ [][NextFold]_vars

(***************************************************************************)
(* Claims about the history after handle_response.                         *)
(***************************************************************************)
\* C33: assistant replies are folded into the history only through the
\* append-and-trim operation, so after any sequence of turns handled by
\* handle_response / stream_response the history holds at most
\* MAX_HISTORY_LENGTH messages.
C33_FoldedHistoryWithinLimit ==
    stream.pc # "loop" => Len(chat_handler.messages) <= MAX_HISTORY_LENGTH

(***************************************************************************)
(* Claims about the modes that need beta.                                  *)
(***************************************************************************)
\* C34: after any sequence of /beta and /prefix commands, prefix mode is
\* enabled only while beta mode is enabled.
C34_PrefixModeImpliesBetaMode ==
    chat_handler.prefix_mode => api_client.beta_mode

(***************************************************************************)
(* Claims about the active model.                                          *)
(***************************************************************************)
\* C35: in every reachable session state, from construction onward, the
\* active model of ChatHandler is a key of the capability catalog
\* MODEL_CONFIGS.
C35_ActiveModelInCatalog ==
    chat_handler.model \in DOMAIN MODEL_CONFIGS

\* C36: in every state reachable from construction by any sequence of
\* commands, the model recorded by the session (ChatHandler.model, the one
\* put in the request) equals the model recorded by the client
\* (APIClient.current_model).
C36_SessionAndClientModelAgree ==
    chat_handler.model = api_client.current_model

(***************************************************************************)
(* Claims about the history after a failed turn.                           *)
(***************************************************************************)
\* C37: a turn that ends without a reply leaves the message history as it
\* was before the turn began: between turns the history does not end with
\* the user message of a failed turn, and two user messages never stand next
\* to each other.
C37_FailedTurnLeavesHistory ==
    engine.pc = "idle" =>
        LET messages == chat_handler.messages
        IN  /\ (result.op = "get_completion" /\ result.ret = <<>>)
                   => (messages = <<>> \/ messages[Len(messages)].role # "user")
            /\ \A i \in 1..(Len(messages) - 1) :
                   ~(messages[i].role = "user" /\ messages[i + 1].role = "user")

(***************************************************************************)
(* Claims about the pending buffer.                                        *)
(***************************************************************************)
\* C38: after stream_response has processed any fragment, whatever its
\* length, the pending buffer is shorter than the size threshold
\* (buffer_size_chars); consequently the forced refresh (pending at least
\* twice the size threshold) is never the reason selected for a refresh.
C38_PendingBelowSizeThreshold ==
    stream.pc # "idle" =>
        /\ Len(stream.buffer) < chat_handler.stream_config.buffer_size_chars
        /\ \A i \in 1..Len(stream.refreshes) :
               stream.refreshes[i].reason # "force_refresh"

\* a first fragment of more than twice the size threshold has been shown for
\* its size and nothing is pending, and a second fragment is to come
C38_Witness ==
    /\ stream.pc = "loop"
    /\ stream.next = 2
    /\ Len(stream.response) >= 2
    /\ Len(stream.response[1].content)
           >= 2 * chat_handler.stream_config.buffer_size_chars
    /\ stream.refreshes = <<[reason |-> "buffer_size", chunk |-> 1]>>
    /\ stream.buffer = <<>>

(***************************************************************************)
(* Claims about the size of the final display.                             *)
(***************************************************************************)
\* C39: for every visible budget that configure_stream_settings accepts,
\* values of 2200 or less included, and every text longer than the budget,
\* the final display made by _prepare_final_display_content is shorter than
\* the full text and no longer than the budget.
C39_FinalDisplayWithinBudget ==
    FinalDisplayOfLongText =>
        /\ Len(stream.display) < Len(stream.full_response)
        /\ Len(stream.display) <= chat_handler.stream_config.max_visible_chars

====
